---- MODULE Spec2Model ----
(***************************************************************************)
(* State-machine model of the SPADE public-transportation simulation:      *)
(* stations running Contract-Net sessions (agents/station.py), vehicles    *)
(* (agents/vehicle.py), the workshop (agents/maintenance.py), the gas      *)
(* station (agents/gas_station.py) and the city graph (models/city_map.py).*)
(*                                                                         *)
(* Fuel is a float in the source with consumption 0.2 per distance unit;   *)
(* the model counts fuel in fifths (FuelScale units per 1.0), so that one  *)
(* distance unit costs exactly one fuel unit.                              *)
(* Status updates to the dashboard and metric records are not modelled.   *)
(***************************************************************************)
EXTENDS Integers, Sequences, FiniteSets, TLC

\* ------------------------------------------------------------------ bounds
MaxSessions == 2
MaxFaults == 3
MaxHops == 3
MaxJams == 2
MaxTourHops == 8
MaxServeHops == 12

\* --------------------------------------------------------------- constants
FuelScale == 5
FuelFull == 100 * FuelScale
LowFuel == 30 * FuelScale
SafetyBuffer == 15 * FuelScale
PitBuffer == 10 * FuelScale
num_mechanics == 2

\* ------------------------------------------------------------------ agents
Vehicles == {"v1", "v2", "v3"}
Stations == {"st1", "st2"}
passenger_pool == <<"p1", "p2">>
Passengers == {passenger_pool[i] : i \in 1..Len(passenger_pool)}
Mechanic == "mech"
Pump == "fuel"
Traffic == "traffic"
SessionIds == 1..MaxSessions
NoThread == 0

\* The stations' nodes (constructor arguments).
location == [st \in Stations |-> IF st = "st1" THEN "South" ELSE "East"]
\* Destinations a passenger may ask for.
Destinations == {"University"}

Range(s) == {s[i] : i \in 1..Len(s)}

\* ---------------------------------------------------------------- city map
Nodes ==
  {"Central", "North", "South", "East", "West", "Airport", "University",
   "Stadium", "GasStation"}

routes ==
  { <<"Central", "North", 10, {"bus", "tram"}>>,
    <<"North", "Central", 10, {"bus", "tram"}>>,
    <<"Central", "East", 10, {"bus", "tram"}>>,
    <<"East", "Central", 10, {"bus", "tram"}>>,
    <<"Central", "South", 12, {"bus"}>>,
    <<"South", "Central", 12, {"bus"}>>,
    <<"Central", "West", 8, {"tram"}>>,
    <<"West", "Central", 8, {"tram"}>>,
    <<"West", "North", 12, {"bus"}>>,
    <<"North", "West", 12, {"bus"}>>,
    <<"North", "East", 8, {"tram", "bus"}>>,
    <<"East", "North", 8, {"tram", "bus"}>>,
    <<"East", "Stadium", 6, {"tram"}>>,
    <<"Stadium", "North", 7, {"tram"}>>,
    <<"South", "University", 5, {"bus"}>>,
    <<"University", "South", 5, {"bus"}>>,
    <<"West", "University", 18, {"bus"}>>,
    <<"University", "West", 18, {"bus"}>>,
    <<"South", "Airport", 25, {"bus"}>>,
    <<"Airport", "South", 25, {"bus"}>>,
    <<"East", "Airport", 35, {"bus"}>>,
    <<"Airport", "East", 35, {"bus"}>>,
    <<"South", "GasStation", 5, {"bus"}>>,
    <<"GasStation", "South", 5, {"bus"}>> }

Edges == {<<r[1], r[2]>> : r \in routes}
RouteOf(e) == CHOOSE r \in routes : <<r[1], r[2]>> = e
\* graph[u][v]["weight"], ["base_weight"] and ["allowed_types"] at creation.
InitWeight == [e \in Edges |-> RouteOf(e)[3]]
base_weight == [e \in Edges |-> RouteOf(e)[3]]
allowed_types == [e \in Edges |-> RouteOf(e)[4]]

NoPath == <<>>

\* Seeded fault of the filter: every edge passes.
PassableByAll(vehicle_type) == Edges

\* Seeded fault of the map: the street out of the depot is missing.
PassableButDepotExit(vehicle_type) ==
  {e \in Edges : vehicle_type \in allowed_types[e]
                   /\ e # <<"GasStation", "South">>}

\* is_passable: the edges a vehicle type may use.
Passable(vehicle_type) == {e \in Edges : vehicle_type \in allowed_types[e]}

SetMin(S) == CHOOSE x \in S : \A y \in S : x <= y

\* The distance table: a set of <<node, time>> pairs, one per reached node.
Reached(D) == {x[1] : x \in D}
TimeTo(D, n) == (CHOOSE x \in D : x[1] = n)[2]

\* One relaxation round over the filtered view.
Relax(w, P, D) ==
  LET cand(n) ==
        {TimeTo(D, e[1]) + w[e] : e \in {x \in P : x[2] = n /\ x[1] \in Reached(D)}}
          \cup {x[2] : x \in {y \in D : y[1] = n}}
  IN {<<n, SetMin(cand(n))>> : n \in {m \in Nodes : cand(m) # {}}}

RECURSIVE RelaxN(_, _, _, _)
RelaxN(w, P, D, k) ==
  LET D1 == Relax(w, P, D)
  IN IF k = 0 \/ D1 = D THEN D ELSE RelaxN(w, P, D1, k - 1)

\* Seeded fault of the search: it gives up after one round.
DistOneRound(w, vehicle_type, src) ==
  RelaxN(w, Passable(vehicle_type), {<<src, 0>>}, 1)

\* Shortest time from src to every node it reaches over the filtered view.
Dist(w, vehicle_type, src) ==
  RelaxN(w, Passable(vehicle_type), {<<src, 0>>}, Cardinality(Nodes) - 1)

RECURSIVE BackTrack(_, _, _, _, _, _)
BackTrack(w, P, D, src, cur, acc) ==
  IF cur = src THEN acc
  ELSE LET p == CHOOSE u \in Reached(D) :
                  /\ <<u, cur>> \in P
                  /\ TimeTo(D, u) + w[<<u, cur>>] = TimeTo(D, cur)
       IN BackTrack(w, P, D, src, p, <<p>> \o acc)

\* Seeded fault of the search: it minimises the number of edges.
FewestHopsPathOn(w, start_node, end_node, vehicle_type) ==
  LET unit == [e \in Edges |-> 1]
      D == Dist(unit, vehicle_type, start_node)
  IN IF end_node \notin Reached(D) THEN NoPath
     ELSE BackTrack(unit, Passable(vehicle_type), D, start_node, end_node,
                    <<end_node>>)

\* nx.shortest_path on the filtered view; NoPath when the target is
\* unreachable (NetworkXNoPath).
ShortestPathOn(w, start_node, end_node, vehicle_type) ==
  LET D == Dist(w, vehicle_type, start_node)
  IN IF end_node \notin Reached(D) THEN NoPath
     ELSE BackTrack(w, Passable(vehicle_type), D, start_node, end_node,
                    <<end_node>>)

\* The paths of the map as created, computed once: <<type, from, to, path>>.
SamplePaths ==
  {<<t, a, b, ShortestPathOn(InitWeight, a, b, t)>> :
     t \in {"bus", "tram"}, a \in Nodes, b \in Nodes}

\* The reported cost: 10 when clear, else randint(30, 60), of which the two
\* ends are explored.
ClearWeight == 10
JamWeights == {30, 60}

\* One street of those the traffic manager reports on, whose reports are
\* followed to the end.
NewsEdges == {<<"Central", "North">>}

\* The paths under each state of that street's reports, computed once:
\* <<time costs, type, from, to, path>>.
NewsPaths ==
  {<<w, t, a, b, ShortestPathOn(w, a, b, t)>> :
     w \in {[InitWeight EXCEPT ![e] = nw] : e \in NewsEdges,
                                           nw \in {ClearWeight} \cup JamWeights},
     t \in {"bus", "tram"}, a \in Nodes, b \in Nodes}

\* get_shortest_path: Dijkstra on the view filtered by vehicle type.
get_shortest_path(w, start_node, end_node, vehicle_type) ==
  IF w = InitWeight
  THEN (CHOOSE r \in SamplePaths :
          r[1] = vehicle_type /\ r[2] = start_node /\ r[3] = end_node)[4]
  ELSE IF \E r \in NewsPaths : r[1] = w
  THEN (CHOOSE r \in NewsPaths :
          r[1] = w /\ r[2] = vehicle_type /\ r[3] = start_node
            /\ r[4] = end_node)[5]
  ELSE ShortestPathOn(w, start_node, end_node, vehicle_type)

RECURSIVE SumEdges(_, _, _)
SumEdges(f, path, i) ==
  IF i >= Len(path) THEN 0
  ELSE f[<<path[i], path[i + 1]>>] + SumEdges(f, path, i + 1)

\* get_total_time: the sum of the edges' "weight" along the path.
get_total_time(w, path) == IF Len(path) < 2 THEN 0 ELSE SumEdges(w, path, 1)
\* get_total_distance: the sum of the edges' "base_weight" along the path.
get_total_distance(bw, path) ==
  IF Len(path) < 2 THEN 0 ELSE SumEdges(bw, path, 1)


\* ---------------------------------------------------------------- messages
\* A SPADE message: sender, performative metadata, thread and JSON body.
Message(sender, performative, thread, body) ==
  [sender |-> sender, performative |-> performative, thread |-> thread,
   body |-> body]

\* content.get(key)
Get(content, key) == IF key \in DOMAIN content THEN content[key] ELSE "none"

\* A body that json.loads cannot parse.
Unparsable == [raw |-> "not json"]

\* TransportationOntology.format_cfp
format_cfp(origin, destination, passenger_count) ==
  [type |-> "ride_request", origin |-> origin, destination |-> destination,
   passenger_count |-> passenger_count]

\* TransportationOntology.format_proposal
format_proposal(vehicle_id, eta, capacity_available, route_plan) ==
  [type |-> "bid", vehicle_id |-> vehicle_id, eta |-> eta,
   capacity |-> capacity_available, route |-> route_plan]

\* TransportationOntology.format_breakdown
format_breakdown(vehicle_id, loc, issue_type) ==
  [type |-> "breakdown_alert", vehicle_id |-> vehicle_id, location |-> loc,
   issue |-> issue_type]

\* An outgoing message and its recipient.
Out(to, msg) == [to |-> to, msg |-> msg]

\* msg.make_reply(): to the sender, on the same thread.
Reply(me, msg, performative, body) ==
  Out(msg.sender, Message(me, performative, msg.thread, body))

\* ----------------------------------------------------------------- vehicle
\* VehicleAgent.__init__: the fields of a new vehicle.
NewVehicle(vehicle_type, start_location, capacity, patrol_route) ==
  [vehicle_type |-> vehicle_type,
   current_location |-> start_location,
   capacity |-> capacity,
   patrol_route |-> patrol_route,
   patrol_index |->
     IF start_location \in Range(patrol_route)
     THEN (CHOOSE i \in 1..Len(patrol_route) :
             /\ patrol_route[i] = start_location
             /\ \A j \in 1..(i - 1) : patrol_route[j] # start_location) - 1
     ELSE 0,
   manifest |-> <<>>,
   waypoints |-> <<>>,
   pending_bids |-> <<>>,
   fuel_level |-> FuelFull,
   is_broken |-> FALSE,
   is_refueling |-> FALSE,
   weight |-> InitWeight,
   base_weight |-> base_weight,
   is_killed |-> FALSE]

\* The result of a handler: the vehicle's new fields, the messages it sent
\* and the events it went through (award outcomes, drop-offs, breakdowns).
Result(a, out, ev) == [a |-> a, out |-> out, ev |-> ev]

\* Seeded fault of the pit stop: it is scheduled even while refueling.
go_to_gas_station_while_refueling(a) ==
  IF "GasStation" \in Range(a.waypoints) THEN a
  ELSE [a EXCEPT !.waypoints = Append(@, "GasStation")]

\* Seeded fault of the fuel guards: trams burn fuel too.
EveryoneBurnsFuel(a) == TRUE

\* The guard of every fuel check and of the decrement
\* (self.agent.vehicle_type != "tram").
BurnsFuel(a) == a.vehicle_type # "tram"

\* go_to_gas_station
go_to_gas_station(a) ==
  IF a.is_refueling \/ "GasStation" \in Range(a.waypoints) THEN a
  ELSE [a EXCEPT !.waypoints = Append(@, "GasStation")]

\* send_refuse
send_refuse(me, msg, reason) == Reply(me, msg, "refuse", [reason |-> reason])

\* handle_cfp, lines 321-331: the low-fuel refusal and the pit stop.
refuse_low_fuel(a, me, msg) ==
  Result(IF a.manifest = <<>> /\ "GasStation" \notin Range(a.waypoints)
         THEN go_to_gas_station(a) ELSE a,
         <<send_refuse(me, msg, "low_fuel")>>, <<>>)

\* handle_cfp, lines 333-392: capacity, route and fuel-safety checks, then
\* the pending bid and the PROPOSE.
evaluate_bid(a, me, msg) ==
  LET thread_id == msg.thread
      origin == msg.body.origin
      destination == msg.body.destination
      path_pickup ==
        get_shortest_path(a.weight, a.current_location, origin, a.vehicle_type)
      path_trip ==
        get_shortest_path(a.weight, origin, destination, a.vehicle_type)
      pickup_cost == get_total_distance(a.base_weight, path_pickup)
      trip_cost == get_total_distance(a.base_weight, path_trip)
      fuel_needed == pickup_cost + trip_cost
      path_pump == get_shortest_path(a.weight, destination, "GasStation", "bus")
      safety ==
        IF path_pump # NoPath THEN get_total_time(a.weight, path_pump) ELSE 0
      total_required == fuel_needed + safety + SafetyBuffer
  IN IF Len(a.manifest) >= a.capacity
     THEN Result(a, <<send_refuse(me, msg, "full_capacity")>>, <<>>)
     ELSE IF path_pickup = NoPath \/ path_trip = NoPath
     THEN Result(a, <<send_refuse(me, msg, "route_impossible")>>, <<>>)
     ELSE IF BurnsFuel(a) /\ a.fuel_level < total_required
     THEN Result(a, <<send_refuse(me, msg, "insufficient_fuel_safety")>>, <<>>)
     ELSE Result(
            IF thread_id # NoThread
            THEN [a EXCEPT !.pending_bids =
                    (thread_id :> [origin |-> origin, dest |-> destination,
                                   fuel_cost |-> fuel_needed])
                    @@ a.pending_bids]
            ELSE a,
            <<Reply(me, msg, "propose",
                    format_proposal(me, pickup_cost,
                                    a.capacity - Len(a.manifest), path_trip))>>,
            <<>>)

\* Seeded fault of the order: the capacity is checked before the fuel.
handle_cfp_capacity_first(a, me, msg) ==
  IF Len(a.manifest) >= a.capacity
  THEN Result(a, <<send_refuse(me, msg, "full_capacity")>>, <<>>)
  ELSE IF BurnsFuel(a) /\ a.fuel_level < LowFuel
  THEN refuse_low_fuel(a, me, msg)
  ELSE evaluate_bid(a, me, msg)

\* handle_cfp: fuel, capacity and route checks, then PROPOSE or REFUSE.
handle_cfp(a, me, msg) ==
  IF BurnsFuel(a) /\ a.fuel_level < LowFuel
  THEN refuse_low_fuel(a, me, msg)
  ELSE evaluate_bid(a, me, msg)

\* Seeded faults of the re-check: it never refuses; it is off by one.
AwardNeverRefused(a) == FALSE
AwardRefusedWhenOverfull(a) == Len(a.manifest) > a.capacity

\* handle_acceptance, lines 401-414: the re-check of the capacity.
AwardRefusedWhenFull(a) == Len(a.manifest) >= a.capacity

\* Seeded fault of the refusal: the pending bid is dropped.
RefuseAwardDroppingBid(a, me, msg) ==
  Result([a EXCEPT !.pending_bids =
            [t \in DOMAIN a.pending_bids \ {msg.thread} |-> a.pending_bids[t]]],
         <<Reply(me, msg, "refuse", [reason |-> "capacity_full_error"])>>,
         <<[ev |-> "capacity_full_error", thread |-> msg.thread]>>)

\* handle_acceptance, lines 402-414: the award is refused, nothing changes.
RefuseAward(a, me, msg) ==
  Result(a, <<Reply(me, msg, "refuse", [reason |-> "capacity_full_error"])>>,
         <<[ev |-> "capacity_full_error", thread |-> msg.thread]>>)

\* Seeded fault of the commit: the origin is put in front whatever the queue
\* ends with.
handle_acceptance_origin_in_front(a, me, msg) ==
  IF AwardRefusedWhenFull(a)
  THEN RefuseAward(a, me, msg)
  ELSE IF msg.thread \in DOMAIN a.pending_bids
  THEN LET bid_data == a.pending_bids[msg.thread]
           origin == bid_data.origin
           dest == bid_data.dest
           p_id == Get(msg.body, "passenger_id")
           m1 == Append(a.manifest, [id |-> p_id, dest |-> dest])
           w1 == IF a.current_location # origin
                 THEN <<origin>> \o a.waypoints
                 ELSE a.waypoints
           w2 == IF dest \notin Range(w1) THEN Append(w1, dest) ELSE w1
       IN Result([a EXCEPT !.manifest = m1, !.waypoints = w2,
                           !.pending_bids =
                             [t \in DOMAIN a.pending_bids \ {msg.thread} |->
                                a.pending_bids[t]]],
                 <<>>, <<[ev |-> "commit", thread |-> msg.thread]>>)
  ELSE Result(a, <<>>, <<[ev |-> "bid_expired", thread |-> msg.thread]>>)

\* handle_acceptance: refuse when full, else commit the pending bid.
handle_acceptance(a, me, msg) ==
  IF AwardRefusedWhenFull(a)
  THEN RefuseAward(a, me, msg)
  ELSE IF msg.thread \in DOMAIN a.pending_bids
  THEN LET bid_data == a.pending_bids[msg.thread]
           origin == bid_data.origin
           dest == bid_data.dest
           p_id == Get(msg.body, "passenger_id")
           m1 == Append(a.manifest, [id |-> p_id, dest |-> dest])
           w1 == IF a.current_location # origin
                    /\ (a.waypoints = <<>>
                        \/ a.waypoints[Len(a.waypoints)] # origin)
                 THEN <<origin>> \o a.waypoints
                 ELSE a.waypoints
           w2 == IF dest \notin Range(w1) THEN Append(w1, dest) ELSE w1
       IN Result([a EXCEPT !.manifest = m1, !.waypoints = w2,
                           !.pending_bids =
                             [t \in DOMAIN a.pending_bids \ {msg.thread} |->
                                a.pending_bids[t]]],
                 <<>>, <<[ev |-> "commit", thread |-> msg.thread]>>)
  ELSE Result(a, <<>>, <<[ev |-> "bid_expired", thread |-> msg.thread]>>)

\* Seeded fault of the confirmations: they are ignored.
ServiceMessageIgnored(a, msg) == Result(a, <<>>, <<>>)

\* Seeded fault of the refuel completion: the Refueling flag stays set.
process_service_message_still_refueling(a, msg) ==
  IF msg.body.status = "repaired"
  THEN Result([a EXCEPT !.is_broken = FALSE,
                        !.fuel_level =
                          IF Get(msg.body, "refueled") = TRUE THEN FuelFull ELSE @],
              <<>>, <<>>)
  ELSE Result([a EXCEPT !.fuel_level = FuelFull,
                        !.current_location = "GasStation"],
              <<>>, <<>>)

\* process_service_message: confirmations of the workshop and the pump.
process_service_message(a, msg) ==
  IF msg.body.status = "repaired"
  THEN Result([a EXCEPT !.is_broken = FALSE,
                        !.fuel_level =
                          IF Get(msg.body, "refueled") = TRUE THEN FuelFull ELSE @],
              <<>>, <<>>)
  ELSE Result([a EXCEPT !.fuel_level = FuelFull, !.is_refueling = FALSE,
                        !.current_location = "GasStation"],
              <<>>, <<>>)

\* Seeded fault of the diversion: the station joins the end of the queue.
handle_surge_at_back(a, msg) ==
  LET target_station == msg.body.station
  IN IF /\ Len(a.manifest) < a.capacity
        /\ target_station # a.current_location
        /\ target_station \notin Range(a.waypoints)
        /\ ~a.is_broken
        /\ ~a.is_refueling
     THEN Result([a EXCEPT !.waypoints = Append(@, target_station)], <<>>, <<>>)
     ELSE Result(a, <<>>, <<>>)

\* run, lines 138-150: demand-surge diversion.
handle_surge(a, msg) ==
  LET target_station == msg.body.station
  IN IF /\ Len(a.manifest) < a.capacity
        /\ target_station # a.current_location
        /\ target_station \notin Range(a.waypoints)
        /\ ~a.is_broken
        /\ ~a.is_refueling
     THEN Result([a EXCEPT !.waypoints = <<target_station>> \o @], <<>>, <<>>)
     ELSE Result(a, <<>>, <<>>)

\* Seeded fault of the update: the edge's distance is rewritten as well.
handle_traffic_and_distance(a, msg) ==
  LET e == msg.body.edge
  IN IF e \in Edges
     THEN Result([a EXCEPT !.weight = [@ EXCEPT ![e] = msg.body.new_weight],
                           !.base_weight = [@ EXCEPT ![e] = msg.body.new_weight]],
                 <<>>, <<>>)
     ELSE Result(a, <<>>, <<>>)

\* Seeded fault of the update: a broken vehicle drops it.
handle_traffic_unless_broken(a, msg) ==
  LET e == msg.body.edge
  IN IF e \in Edges /\ ~a.is_broken
     THEN Result([a EXCEPT !.weight = [@ EXCEPT ![e] = msg.body.new_weight]],
                 <<>>, <<>>)
     ELSE Result(a, <<>>, <<>>)

\* Seeded fault of the update: the street is rewritten in both directions.
handle_traffic_both_ways(a, msg) ==
  LET e == msg.body.edge
      back == <<e[2], e[1]>>
  IN IF e \in Edges
     THEN Result([a EXCEPT !.weight =
                    [f \in Edges |->
                       IF f \in {e, back} THEN msg.body.new_weight ELSE @[f]]],
                 <<>>, <<>>)
     ELSE Result(a, <<>>, <<>>)

\* run, lines 119-127: a traffic update rewrites one edge's time cost.
handle_traffic(a, msg) ==
  LET e == msg.body.edge
  IN IF e \in Edges
     THEN Result([a EXCEPT !.weight = [@ EXCEPT ![e] = msg.body.new_weight]],
                 <<>>, <<>>)
     ELSE Result(a, <<>>, <<>>)

\* run, lines 114-150: the dispatch on a received message.  json.loads
\* (line 117) is not guarded: on a body it cannot parse the exception leaves
\* run and the behaviour is killed.
Dispatch(a, me, msg) ==
  IF msg.body = Unparsable
  THEN Result([a EXCEPT !.is_killed = TRUE], <<>>, <<>>)
  ELSE IF msg.performative = "inform" /\ Get(msg.body, "type") = "traffic_update"
  THEN handle_traffic(a, msg)
  ELSE IF msg.performative = "cfp" THEN handle_cfp(a, me, msg)
  ELSE IF msg.performative = "accept-proposal" THEN handle_acceptance(a, me, msg)
  ELSE IF Get(msg.body, "status") \in {"repaired", "refueled"}
  THEN process_service_message(a, msg)
  ELSE IF msg.performative = "inform" /\ Get(msg.body, "type") = "demand_surge"
  THEN handle_surge(a, msg)
  ELSE Result(a, <<>>, <<>>)

\* trigger_breakdown: sets the flag and reports to the workshop.
trigger_breakdown(a, me, issue_type, ev) ==
  Result([a EXCEPT !.is_broken = TRUE],
         <<Out(Mechanic,
               Message(me, "request", NoThread,
                       format_breakdown(me, a.current_location, issue_type)))>>,
         ev \o <<[ev |-> issue_type, thread |-> NoThread]>>)

\* Seeded fault of the drop-off: nobody leaves.
SelectSeqAll(manifest, loc) == manifest

RECURSIVE SelectSeqFirstNot(_, _)
\* Seeded fault of the drop-off: only the first passenger for the stop leaves.
SelectSeqFirstNot(manifest, loc) ==
  IF manifest = <<>> THEN <<>>
  ELSE IF Head(manifest).dest = loc THEN Tail(manifest)
  ELSE <<Head(manifest)>> \o SelectSeqFirstNot(Tail(manifest), loc)

RECURSIVE SelectSeqNot(_, _)
\* The manifest entries that stay aboard at a stop, in their order.
SelectSeqNot(manifest, loc) ==
  IF manifest = <<>> THEN <<>>
  ELSE IF Head(manifest).dest = loc THEN SelectSeqNot(Tail(manifest), loc)
  ELSE <<Head(manifest)>> \o SelectSeqNot(Tail(manifest), loc)

\* process_stop: refuel request at the depot, else drop-off and the
\* preventive trip to the pump.
process_stop(a, me, loc) ==
  IF loc = "GasStation"
  THEN Result([a EXCEPT !.is_refueling = TRUE],
              <<Out(Pump,
                    Message(me, "request", NoThread,
                            [type |-> "refuel_request",
                             amount_needed |-> FuelFull - a.fuel_level]))>>,
              <<>>)
  ELSE LET new_manifest == SelectSeqNot(a.manifest, loc)
           exiting == Len(a.manifest) - Len(new_manifest)
           a1 == [a EXCEPT !.manifest = new_manifest]
           path_pump == get_shortest_path(a.weight, loc, "GasStation", "bus")
           cost_to_pump ==
             IF path_pump # NoPath
             THEN get_total_distance(a.base_weight, path_pump) ELSE 0
           a2 == IF /\ a1.manifest = <<>>
                    /\ BurnsFuel(a1)
                    /\ a1.fuel_level < cost_to_pump + PitBuffer
                    /\ "GasStation" \notin Range(a1.waypoints)
                 THEN go_to_gas_station(a1)
                 ELSE a1
       IN Result(a2, <<>>,
                 IF exiting > 0
                 THEN <<[ev |-> "dropoff", thread |-> NoThread]>> ELSE <<>>)

\* Seeded fault of the hop's cost: the edge's time is charged.
hop_time(a, next_node) == a.weight[<<a.current_location, next_node>>]

\* move_to_next_node, lines 218-224: the fuel a hop takes is the edge's
\* base_weight times the consumption (one fuel unit per distance unit here).
hop_cost(a, next_node) == a.base_weight[<<a.current_location, next_node>>]

\* Seeded fault of the fuel test: the hop is always taken.
NeverOutOfFuel(a, fuel_cost) == FALSE

\* move_to_next_node, lines 226-229: a vehicle that burns fuel has less
\* than the hop takes.
OutOfFuel(a, fuel_cost) == BurnsFuel(a) /\ a.fuel_level < fuel_cost

\* move_to_next_node: one step towards the head waypoint; `fault` is the
\* outcome of random.random() < 0.01.
move_to_next_node(a, me, fault) ==
  IF a.waypoints = <<>> THEN Result(a, <<>>, <<>>)
  ELSE
    LET target_stop == Head(a.waypoints)
        path == get_shortest_path(a.weight, a.current_location, target_stop,
                                  a.vehicle_type)
    IN IF a.current_location = target_stop
       THEN process_stop([a EXCEPT !.waypoints = Tail(@)], me, target_stop)
       ELSE IF Len(path) < 2
       THEN Result([a EXCEPT !.waypoints = Tail(@)], <<>>, <<>>)
       ELSE
         LET next_node == path[2]
             fuel_cost == hop_cost(a, next_node)
             moved == [a EXCEPT !.current_location = next_node,
                                !.fuel_level =
                                  IF BurnsFuel(a)
                                  THEN @ - fuel_cost ELSE @]
             hop == <<[ev |-> "hop", thread |-> NoThread]>>
         IN IF OutOfFuel(a, fuel_cost)
            THEN trigger_breakdown(a, me, "no_fuel", <<>>)
            ELSE IF fault THEN trigger_breakdown(moved, me, "engine_fail", hop)
            ELSE Result(moved, <<>>, hop)

\* Seeded faults of the guard: a flag is ignored.
OperatingWhileRefueling(a) == ~a.is_broken
OperatingWhileBroken(a) == ~a.is_refueling

\* run, lines 153-156 and 168-171: patrol and movement only while the
\* vehicle is neither broken nor refueling.
Operating(a) == ~a.is_broken /\ ~a.is_refueling

\* run, lines 153-166: the patrol fallback.
patrol(a) ==
  IF Operating(a) /\ a.waypoints = <<>>
     /\ a.patrol_route # <<>>
  THEN LET next_idx == (a.patrol_index + 1) % Len(a.patrol_route)
           next_stop == a.patrol_route[next_idx + 1]
       IN IF a.current_location = next_stop
          THEN [a EXCEPT !.patrol_index = next_idx]
          ELSE [a EXCEPT !.waypoints = Append(@, next_stop),
                         !.patrol_index = next_idx]
  ELSE a

\* run, lines 153-173: patrol fallback, then one movement step.
Progress(a, me, fault) ==
  LET a1 == patrol(a)
  IN IF Operating(a1) /\ a1.waypoints # <<>>
     THEN move_to_next_node(a1, me, fault)
     ELSE Result(a1, <<>>, <<>>)


\* ------------------------------------------------------------------- state
VARIABLES
  veh,              \* vehicle -> the VehicleAgent's fields
  net,              \* <<sender, receiver>> -> messages sent and not yet received
  passenger_queue,  \* station -> StationAgent.passenger_queue
  known_vehicles,   \* station or traffic manager -> its known_vehicles
  sess,             \* session id -> the CNPManager's fields and position
  squeue,           \* session id -> the CNPManager's own message queue
  nsess,            \* number of CNPManager behaviours created so far
  sent,             \* session id -> every message the session has sent, in order
  vlog,             \* vehicle -> award outcomes and drop-offs, in order
  jobs,             \* the RepairJob behaviours created so far
  sem,              \* MaintenanceAgent.sem: free mechanics
  pump,             \* the gas station: its queue, the request in service, its log
  waiting,          \* passenger -> it has asked for a ride and not cancelled
  quota,            \* travel requests still to come
  faults,           \* random engine faults still to come
  hops,             \* hops still to come
  jams,             \* traffic reports still to come
  reported,         \* edge -> the time cost last broadcast for it
  trips             \* vehicle -> committed trips: origin not yet visited, or
                    \* dropped before it was

vars ==
  <<veh, net, passenger_queue, known_vehicles, sess, squeue, nsess, sent, vlog,
    jobs, sem, pump, waiting, quota, faults, hops, jams,
    reported, trips>>

vehicleVars == <<veh, vlog, faults, hops, trips>>
sessionVars == <<passenger_queue, sess, nsess, sent>>
workshopVars == <<jobs, sem>>
trafficVars == <<jams, reported>>
passengerVars == <<waiting, quota>>

Links ==
  (Stations \X Vehicles) \cup (Vehicles \X {Mechanic, Pump})
    \cup ({Mechanic, Pump, Traffic} \X Vehicles)

\* self.send for a sequence of outgoing messages of one sender.
RECURSIVE SendAll(_, _, _)
SendAll(n, me, out) ==
  IF out = <<>> THEN n
  ELSE SendAll([n EXCEPT ![<<me, Head(out).to>>] = Append(@, Head(out).msg)],
               me, Tail(out))

Pop(n, link) == [n EXCEPT ![link] = Tail(@)]

NoSession ==
  [station |-> "none", passenger_jid |-> "none", destination |-> "none",
   pc |-> "none", proposals |-> <<>>, expired |-> FALSE]

\* The state after construction, but for the fleet and the budgets.
NoMessages == [l \in Links |-> <<>>]

InitRest ==
  /\ passenger_queue = [st \in Stations |-> <<>>]
  /\ sess = [s \in SessionIds |-> NoSession]
  /\ squeue = [s \in SessionIds |-> <<>>]
  /\ nsess = 0
  /\ sent = [s \in SessionIds |-> <<>>]
  /\ vlog = [v \in Vehicles |-> <<>>]
  /\ trips = [v \in Vehicles |-> [unmet |-> {}, stranded |-> {}]]
  /\ jobs = <<>>
  /\ sem = num_mechanics
  /\ pump = [busy |-> FALSE, queue |-> <<>>, log |-> <<>>]
  /\ waiting = [p \in Passengers |-> FALSE]

\* ---------------------------------------------------------- vehicle actions
Logged == {"commit", "capacity_full_error", "bid_expired", "dropoff"}

RECURSIVE LogEvents(_, _)
LogEvents(ev, load) ==
  IF ev = <<>> THEN <<>>
  ELSE (IF Head(ev).ev \in Logged
        THEN <<[ev |-> Head(ev).ev, thread |-> Head(ev).thread, load |-> load]>>
        ELSE <<>>) \o LogEvents(Tail(ev), load)

Count(ev, kind) == Cardinality({i \in 1..Len(ev) : ev[i].ev = kind})

\* The running behaviours of a station: each has its own queue and gets its
\* own copy of every message that reaches the station.
Live(st) ==
  {s \in SessionIds : sess[s].station = st /\ sess[s].pc \in {"start", "collect"}}

RECURSIVE Enqueue(_, _)
\* The replies of a vehicle reach the station: each is queued for every
\* running CNPManager (ListenForPassengers has no branch for a reply).
\* `late` records whether the session's cutoff had passed on arrival.
Enqueue(q, out) ==
  IF out = <<>> THEN q
  ELSE Enqueue([s \in SessionIds |->
                  IF s \in Live(Head(out).to)
                  THEN Append(q[s], [response |-> Head(out).msg,
                                     late |-> sess[s].expired])
                  ELSE q[s]],
               Tail(out))

ToStation(o) == o.to \in Stations
NotToStation(o) == o.to \notin Stations

\* The effect of one iteration of TransportBehaviour.run on the system.
\* The record of v's committed trips after a run of its loop with result r:
\* a trip committed in the run is added unless the vehicle stands on its
\* origin; a trip leaves `unmet` when the vehicle stands on its origin; a
\* trip still unmet at a drop-off on its destination is `stranded`.
TripsAfter(v, r) ==
  LET a == veh[v]
      new == {[thread |-> r.ev[i].thread,
               origin |-> a.pending_bids[r.ev[i].thread].origin,
               dest |-> a.pending_bids[r.ev[i].thread].dest] :
                i \in {k \in 1..Len(r.ev) : r.ev[k].ev = "commit"}}
      unmet == {t \in trips[v].unmet \cup new :
                  t.origin \notin {a.current_location, r.a.current_location}}
      dropped == IF Count(r.ev, "dropoff") > 0
                 THEN {t \in unmet : t.dest = r.a.current_location} ELSE {}
  IN [unmet |-> unmet \ dropped, stranded |-> trips[v].stranded \cup dropped]

Apply(v, r, n) ==
  /\ hops >= Count(r.ev, "hop")
  /\ trips' = [trips EXCEPT ![v] = TripsAfter(v, r)]
  /\ veh' = [veh EXCEPT ![v] = r.a]
  /\ net' = SendAll(n, v, SelectSeq(r.out, NotToStation))
  /\ squeue' = Enqueue(squeue, SelectSeq(r.out, ToStation))
  /\ vlog' = [vlog EXCEPT ![v] = @ \o LogEvents(r.ev, Len(veh[v].manifest))]
  /\ faults' = faults - Count(r.ev, "engine_fail")
  /\ hops' = hops - Count(r.ev, "hop")

\* r1, then r2 on its result.
Then(r1, r2) == Result(r2.a, r1.out \o r2.out, r1.ev \o r2.ev)

FaultOutcomes == {FALSE} \cup (IF faults > 0 THEN {TRUE} ELSE {})

\* TransportBehaviour.run with a message: the message is dispatched, then
\* the patrol fallback and one movement step follow, unless the dispatch
\* has ended the behaviour.
VehicleRun(v) ==
  /\ ~veh[v].is_killed
  /\ \E l \in Links, fault \in FaultOutcomes :
       /\ l[2] = v
       /\ net[l] # <<>>
       /\ \E r1 \in {Dispatch(veh[v], v, Head(net[l]))} :
            \E r \in {IF r1.a.is_killed THEN r1
                       ELSE Then(r1, Progress(r1.a, v, fault))} :
              Apply(v, r, Pop(net, l))
  /\ UNCHANGED <<sessionVars, known_vehicles, workshopVars, pump, passengerVars, trafficVars>>

\* TransportBehaviour.run when the receive times out: the patrol fallback
\* and one movement step.
VehicleIdle(v) ==
  /\ ~veh[v].is_killed
  /\ \E fault \in FaultOutcomes :
       \E r \in {Progress(veh[v], v, fault)} : Apply(v, r, net)
  /\ UNCHANGED <<sessionVars, known_vehicles, workshopVars, pump, passengerVars, trafficVars>>

\* ---------------------------------------------------------- station actions
RECURSIVE RemoveFirst(_, _)
\* list.remove(x): drops the first occurrence.
RemoveFirst(q, x) ==
  IF q = <<>> THEN <<>>
  ELSE IF Head(q) = x THEN Tail(q)
  ELSE <<Head(q)>> \o RemoveFirst(Tail(q), x)

\* ListenForPassengers.run, lines 60-69: a passenger's travel request queues
\* the passenger and adds a CNPManager.  The passenger agent
\* (agents/passenger.py) is not among the sources: passengers ask in the
\* order of main.py's pool, one request at a time.
TravelRequest(st, p, destination) ==
  /\ quota > 0
  /\ ~waiting[p]
  /\ \A i \in 1..Len(passenger_pool) :
       passenger_pool[i] = p =>
         \A j \in 1..(i - 1) :
           \E s \in SessionIds : sess[s].passenger_jid = passenger_pool[j]
  /\ LET s == nsess + 1
     IN /\ passenger_queue' = [passenger_queue EXCEPT ![st] = Append(@, p)]
        /\ sess' = [sess EXCEPT ![s] =
                      [station |-> st, passenger_jid |-> p,
                       destination |-> destination, pc |-> "start",
                       proposals |-> <<>>, expired |-> FALSE]]
        /\ nsess' = s
  /\ waiting' = [waiting EXCEPT ![p] = TRUE]
  /\ quota' = quota - 1
  /\ UNCHANGED <<vehicleVars, net, known_vehicles, squeue, sent, workshopVars, pump,
                 trafficVars>>

\* ListenForPassengers.run, lines 60-69, for a passenger who asks again
\* while waiting: the station queues the passenger and adds a CNPManager as
\* it does for a first request.
TravelRequestAgain(st, p, destination) ==
  /\ quota > 0
  /\ waiting[p]
  /\ LET s == nsess + 1
     IN /\ passenger_queue' = [passenger_queue EXCEPT ![st] = Append(@, p)]
        /\ sess' = [sess EXCEPT ![s] =
                      [station |-> st, passenger_jid |-> p,
                       destination |-> destination, pc |-> "start",
                       proposals |-> <<>>, expired |-> FALSE]]
        /\ nsess' = s
  /\ quota' = quota - 1
  /\ UNCHANGED <<vehicleVars, net, known_vehicles, squeue, sent, workshopVars, pump,
                 waiting, trafficVars>>

\* ListenForPassengers.run, lines 71-75: a passenger's cancel.
Cancel(st, p) ==
  /\ waiting[p]
  /\ passenger_queue' =
       [passenger_queue EXCEPT ![st] =
          IF p \in Range(@) THEN RemoveFirst(@, p) ELSE @]
  /\ waiting' = [waiting EXCEPT ![p] = FALSE]
  /\ UNCHANGED <<vehicleVars, net, known_vehicles, sess, squeue, nsess, sent,
                 workshopVars, pump, quota, trafficVars>>

RECURSIVE CfpTo(_, _, _, _)
CfpTo(st, s, msg_data, vs) ==
  IF vs = <<>> THEN <<>>
  ELSE <<Out(Head(vs), Message(st, "cfp", s, msg_data))>>
         \o CfpTo(st, s, msg_data, Tail(vs))

RECURSIVE demand_surge(_, _, _)
\* BroadcastStateBehaviour.run: the surge alert to every known vehicle.
demand_surge(st, vs, queue_size) ==
  IF vs = <<>> THEN <<>>
  ELSE <<Out(Head(vs),
             Message(st, "inform", NoThread,
                     [type |-> "demand_surge", station |-> location[st],
                      count |-> queue_size]))>>
         \o demand_surge(st, Tail(vs), queue_size)

\* CNPManager.run, lines 128-144: the call for proposals to every known
\* vehicle; the cutoff is set.
SessionStart(s) ==
  /\ sess[s].pc = "start"
  /\ LET st == sess[s].station
         out == CfpTo(st, s, format_cfp(location[st], sess[s].destination, 1),
                      known_vehicles[st])
     IN /\ net' = SendAll(net, st, out)
        /\ sent' = [sent EXCEPT ![s] = @ \o out]
  /\ sess' = [sess EXCEPT ![s].pc = "collect"]
  /\ UNCHANGED <<vehicleVars, passenger_queue, known_vehicles, squeue, nsess,
                 workshopVars, pump, passengerVars, trafficVars>>

\* datetime.now() passes the session's cutoff.
Deadline(s) ==
  /\ sess[s].pc = "collect"
  /\ ~sess[s].expired
  /\ sess' = [sess EXCEPT ![s].expired = TRUE]
  /\ UNCHANGED <<vehicleVars, net, passenger_queue, known_vehicles, squeue, nsess,
                 sent, workshopVars, pump, passengerVars, trafficVars>>

\* CNPManager.run, lines 148-149: the replies that count as bids.
IsBid(s, response) ==
  response.thread = s /\ response.performative = "propose"

RECURSIVE InsertBeforeTies(_, _)
\* Seeded fault of the sort: an equal ETA goes in front (unstable).
InsertBeforeTies(x, sorted) ==
  IF sorted = <<>> THEN <<x>>
  ELSE IF Head(sorted).eta < x.eta
  THEN <<Head(sorted)>> \o InsertBeforeTies(x, Tail(sorted))
  ELSE <<x>> \o sorted

RECURSIVE InsertByEta(_, _)
InsertByEta(x, sorted) ==
  IF sorted = <<>> THEN <<x>>
  ELSE IF Head(sorted).eta <= x.eta
  THEN <<Head(sorted)>> \o InsertByEta(x, Tail(sorted))
  ELSE <<x>> \o sorted

RECURSIVE SortProposals(_)
\* proposals.sort(key=lambda x: x[1]): list.sort is stable.
SortProposals(proposals) ==
  IF proposals = <<>> THEN <<>>
  ELSE InsertByEta(proposals[Len(proposals)],
                   SortProposals(SubSeq(proposals, 1, Len(proposals) - 1)))

\* Seeded fault of the rejections: the winner is rejected too.
RejectedWithWinner(sorted) == sorted

\* CNPManager.run, lines 171-175: the proposals that get a rejection.
Rejected(sorted) == Tail(sorted)

RECURSIVE RejectAll(_, _)
RejectAll(st, ps) ==
  IF ps = <<>> THEN <<>>
  ELSE <<Reply(st, Head(ps).response, "reject-proposal",
               [reason |-> "better_proposal_found"])>>
         \o RejectAll(st, Tail(ps))

\* CNPManager.run, line 204: the passenger is told of the failure when it
\* is still queued.
FailureNotified(st, passenger_jid) ==
  passenger_jid \in Range(passenger_queue[st])

\* Seeded fault of the ending: the behaviour stays in its loop.
OutcomeStillCollecting(proposals) == "collect"

\* CNPManager.run, lines 154 and 195: the branch taken once the window has
\* closed; the one-shot behaviour ends with it.
Outcome(proposals) == IF proposals # <<>> THEN "Awarded" ELSE "Failed"

\* CNPManager.run, lines 154-214: the window has closed with `proposals`.
Verdict(s, proposals) ==
  LET c == sess[s]
      st == c.station
      sorted == SortProposals(proposals)
      best == sorted[1]
      accept == Reply(st, best.response, "accept-proposal",
                      [passenger_id |-> c.passenger_jid])
      rejects == RejectAll(st, Rejected(sorted))
      found == Out(c.passenger_jid,
                   Message(st, "inform", NoThread,
                           [status |-> "vehicle_found", eta |-> best.eta]))
      refuse == Out(c.passenger_jid,
                    Message(st, "refuse", NoThread,
                            [reason |-> "no_vehicles_available"]))
  IN IF proposals # <<>>
     THEN [awards |-> <<accept>> \o rejects, notice |-> <<found>>]
     ELSE [awards |-> <<>>,
           notice |-> IF FailureNotified(st, c.passenger_jid)
                      THEN <<refuse>> ELSE <<>>]

\* CNPManager.run, lines 154-214: the verdict is sent, the passenger leaves
\* the queue if it is still there, and the session ends.
Conclude(s, proposals) ==
  LET c == sess[s]
      st == c.station
      verdict == Verdict(s, proposals)
  IN /\ net' = SendAll(net, st, verdict.awards)
     /\ sent' = [sent EXCEPT ![s] = @ \o verdict.awards \o verdict.notice]
     /\ passenger_queue' =
          [passenger_queue EXCEPT ![st] =
             IF c.passenger_jid \in Range(@)
             THEN RemoveFirst(@, c.passenger_jid) ELSE @]
     /\ sess' = [sess EXCEPT ![s].pc = Outcome(proposals),
                             ![s].proposals = proposals]

\* CNPManager.run, lines 146-152: a receive that was entered before the
\* cutoff returns a message; the loop condition is then evaluated again and,
\* with the cutoff passed, the session concludes.
SessionReceive(s) ==
  /\ sess[s].pc = "collect"
  /\ squeue[s] # <<>>
  /\ LET m == Head(squeue[s])
         proposals ==
           IF IsBid(s, m.response)
           THEN Append(sess[s].proposals,
                       [response |-> m.response, eta |-> m.response.body.eta,
                        late |-> m.late])
           ELSE sess[s].proposals
     IN IF sess[s].expired
        THEN Conclude(s, proposals)
        ELSE /\ sess' = [sess EXCEPT ![s].proposals = proposals]
             /\ UNCHANGED <<net, sent, passenger_queue>>
  /\ squeue' = [squeue EXCEPT ![s] = Tail(@)]
  /\ UNCHANGED <<vehicleVars, known_vehicles, nsess, workshopVars, pump,
                 passengerVars, trafficVars>>

\* CNPManager.run, line 146: the loop condition is evaluated after the
\* cutoff, be it after a receive that timed out or after a reply was handled;
\* what is still queued is never read.
SessionTimeout(s) ==
  /\ sess[s].pc = "collect"
  /\ sess[s].expired
  /\ Conclude(s, sess[s].proposals)
  /\ UNCHANGED <<vehicleVars, known_vehicles, squeue, nsess, workshopVars, pump,
                 passengerVars, trafficVars>>

\* --------------------------------------------------------- workshop actions
\* DispatcherBehaviour.run: one RepairJob per breakdown alert.
Dispatcher(v) ==
  /\ net[<<v, Mechanic>>] # <<>>
  /\ LET msg == Head(net[<<v, Mechanic>>])
     IN jobs' = IF msg.performative = "request"
                   /\ Get(msg.body, "type") = "breakdown_alert"
                THEN Append(jobs, [request_msg |-> msg, pc |-> "waiting",
                                   completions |-> 0])
                ELSE jobs
  /\ net' = Pop(net, <<v, Mechanic>>)
  /\ UNCHANGED <<vehicleVars, sessionVars, known_vehicles, squeue, sem, pump,
                 passengerVars, trafficVars>>

\* Seeded fault of the semaphore: it admits every job.
AlwaysAcquire(value) == TRUE

\* RepairJob.run, line 62: the semaphore admits the job when a mechanic is free.
CanAcquire(value) == value > 0

JobAcquire(j) ==
  /\ jobs[j].pc = "waiting"
  /\ CanAcquire(sem)
  /\ sem' = sem - 1
  /\ jobs' = [jobs EXCEPT ![j].pc = "repairing"]
  /\ UNCHANGED <<vehicleVars, sessionVars, known_vehicles, squeue, net, pump,
                 passengerVars, trafficVars>>

\* RepairJob.run, lines 65-82: the repair ends, the reply is sent and the
\* mechanic is released.
\* Seeded fault of the repair: every repair fills the tank.
AnyIssueRefuels(issue) == TRUE

\* RepairJob.run, line 66: the repair refuels when the vehicle ran dry.
IsFuelIssue(issue) == issue = "no_fuel"

JobFinish(j) ==
  /\ jobs[j].pc = "repairing"
  /\ LET msg == jobs[j].request_msg
         is_refueled == IsFuelIssue(Get(msg.body, "issue"))
     IN net' = SendAll(net, Mechanic,
                       <<Reply(Mechanic, msg, "inform",
                               [status |-> "repaired", refueled |-> is_refueled])>>)
  /\ sem' = sem + 1
  /\ jobs' = [jobs EXCEPT ![j].pc = "done", ![j].completions = @ + 1]
  /\ UNCHANGED <<vehicleVars, sessionVars, known_vehicles, squeue, pump,
                 passengerVars, trafficVars>>

\* -------------------------------------------------------------- pump actions
\* A refuel request reaches the gas station agent and is queued for its one
\* behaviour; `log` records the arrivals, service starts and replies.
PumpArrive(v) ==
  /\ net[<<v, Pump>>] # <<>>
  /\ LET msg == Head(net[<<v, Pump>>])
     IN pump' = [pump EXCEPT !.queue = Append(@, msg),
                             !.log = Append(@, [ev |-> "arrive", msg |-> msg])]
  /\ net' = Pop(net, <<v, Pump>>)
  /\ UNCHANGED <<vehicleVars, sessionVars, known_vehicles, squeue, workshopVars,
                 passengerVars, trafficVars>>

\* Seeded fault of the receive: the newest queued message is taken.
NewestQueued(queue) == Len(queue)

\* self.receive, line 38: the oldest queued message is taken.
OldestQueued(queue) == 1

\* RefuelServiceBehaviour.run, lines 38-48: a request is taken into service;
\* the behaviour then sleeps and receives nothing until it has replied.
PumpReceive ==
  /\ ~pump.busy
  /\ pump.queue # <<>>
  /\ LET i == OldestQueued(pump.queue)
         msg == pump.queue[i]
         rest == [k \in 1..(Len(pump.queue) - 1) |->
                    IF k < i THEN pump.queue[k] ELSE pump.queue[k + 1]]
     IN pump' = IF msg.performative = "request"
                   /\ Get(msg.body, "type") = "refuel_request"
                THEN [busy |-> TRUE, msg |-> msg, queue |-> rest,
                      log |-> Append(pump.log, [ev |-> "start", msg |-> msg])]
                ELSE [pump EXCEPT !.queue = rest]
  /\ UNCHANGED <<vehicleVars, sessionVars, known_vehicles, squeue, workshopVars,
                 passengerVars, trafficVars, net>>

\* RefuelServiceBehaviour.run, lines 48-59: the reply after the filling time.
PumpReply ==
  /\ pump.busy
  /\ net' = SendAll(net, Pump,
                    <<Reply(Pump, pump.msg, "inform",
                            [status |-> "refueled", fuel_level |-> FuelFull])>>)
  /\ pump' = [busy |-> FALSE, queue |-> pump.queue,
              log |-> Append(pump.log, [ev |-> "reply", msg |-> pump.msg])]
  /\ UNCHANGED <<vehicleVars, sessionVars, known_vehicles, squeue, workshopVars,
                 passengerVars, trafficVars>>

\* ----------------------------------------------------------- traffic actions
\* TrafficManagerAgent.__init__: the streets that may be reported.
TrafficEdges ==
  {<<"Central", "North">>, <<"North", "Central">>, <<"Central", "East">>,
   <<"East", "Central">>, <<"South", "Airport">>, <<"Airport", "South">>}

RECURSIVE traffic_update(_, _, _)
\* TrafficJamBehaviour.run, lines 64-76: the update to every known vehicle.
traffic_update(vs, e, new_weight) ==
  IF vs = <<>> THEN <<>>
  ELSE <<Out(Head(vs),
             Message(Traffic, "inform", NoThread,
                     [type |-> "traffic_update", edge |-> e,
                      new_weight |-> new_weight]))>>
         \o traffic_update(Tail(vs), e, new_weight)

\* TrafficJamBehaviour.run: one period of the traffic manager.
TrafficJam(e, new_weight) ==
  /\ jams > 0
  /\ jams' = jams - 1
  /\ reported' = [reported EXCEPT ![e] = new_weight]
  /\ net' = SendAll(net, Traffic,
                    traffic_update(known_vehicles[Traffic], e, new_weight))
  /\ UNCHANGED <<vehicleVars, sessionVars, known_vehicles, squeue, workshopVars,
                 pump, passengerVars>>

\* ----------------------------------------------------------- specification
\* The seats of a vehicle in the scenarios (main.py gives buses 4, trams 6).
Capacity == 1

Bus(start_location) == NewVehicle("bus", start_location, Capacity, <<>>)
Tram(start_location) == NewVehicle("tram", start_location, Capacity, <<>>)

\* A bus whose tank has run down below the low-fuel mark.
LowBus(start_location) ==
  [Bus(start_location) EXCEPT !.fuel_level = LowFuel - FuelScale]

\* main.py, route_bus_1: the patrol route of the first bus.
route_bus_1 == <<"South", "Central", "North", "West", "University", "South">>

\* A bus on patrol whose tank has run down below the low-fuel mark.
LowPatrolBus(start_location) ==
  [NewVehicle("bus", start_location, Capacity, route_bus_1)
     EXCEPT !.fuel_level = LowFuel - FuelScale]

\* A bus on patrol with a full tank.
PatrolBus(start_location) ==
  NewVehicle("bus", start_location, Capacity, route_bus_1)

\* A bus whose tank has run down to just above the low-fuel mark.
TiredBus(start_location) ==
  [Bus(start_location) EXCEPT !.fuel_level = LowFuel + 3]

\* A bus whose tank just covers a trip from the Airport to South and back
\* with the reserve for the way to the depot.
SpentBus(start_location) ==
  [Bus(start_location) EXCEPT !.fuel_level = LowFuel + 7]

Fleet(v1, v2, v3) ==
  [v \in Vehicles |-> IF v = "v1" THEN v1 ELSE IF v = "v2" THEN v2 ELSE v3]

\* The fleet, the vehicles the station knows, the passengers' requests, the
\* random faults and the traffic reports that are explored and the messages
\* in flight.
Setup(fleet, known, requests, f, j, inflight) ==
  /\ veh = fleet
  /\ known_vehicles = [x \in Stations \cup {Traffic} |-> known]
  /\ quota = requests
  /\ faults = f
  /\ jams = j
  /\ reported = InitWeight
  /\ hops = MaxHops
  /\ net = inflight
  /\ InitRest

\* Scenario 1: the station at South knows one bus; two passengers ask there; the
\* bus may have a low tank and may break down once.
Init ==
  \E v1 \in {Bus("South"), LowBus("South")} :
    Setup(Fleet(v1, Bus("University"), Tram("North")), <<"v1">>,
          MaxSessions, 1, 0, NoMessages)

Next ==
  \/ \E p \in Passengers, d \in Destinations : TravelRequest("st1", p, d)
  \/ \E p \in Passengers : Cancel("st1", p)
  \/ \E s \in SessionIds : SessionStart(s)
  \/ \E s \in SessionIds : Deadline(s)
  \/ \E s \in SessionIds : SessionReceive(s)
  \/ \E s \in SessionIds : SessionTimeout(s)
  \/ \E v \in Vehicles : VehicleRun(v)
  \/ \E v \in Vehicles : VehicleIdle(v)
  \/ \E v \in Vehicles : Dispatcher(v)
  \/ \E j \in 1..Len(jobs) : JobAcquire(j)
  \/ \E j \in 1..Len(jobs) : JobFinish(j)
  \/ \E v \in Vehicles : PumpArrive(v)
  \/ PumpReceive
  \/ PumpReply

Spec == Init /\ [][Next]_vars

\* Scenario 2: the station knows three vehicles at varied places; one
\* passenger asks.
InitAuction ==
  \E v1 \in {Bus("University"), Bus("Airport")},
     v3 \in {Bus("Central"), Tram("North")} :
    Setup(Fleet(v1, Bus("University"), v3), <<"v1", "v2", "v3">>,
          1, 0, 0, NoMessages)

NextAuction ==
  \/ \E p \in Passengers, d \in Destinations : TravelRequest("st1", p, d)
  \/ \E s \in SessionIds : SessionStart(s)
  \/ \E s \in SessionIds : Deadline(s)
  \/ \E s \in SessionIds : SessionReceive(s)
  \/ \E s \in SessionIds : SessionTimeout(s)
  \/ \E v \in Vehicles : VehicleRun(v)
  \/ \E v \in Vehicles : VehicleIdle(v)

SpecAuction == InitAuction /\ [][NextAuction]_vars

\* The sessions' and the vehicles' behaviours are scheduled again and again
\* by their event loops: the system does not stop while one of them has a
\* step to take.
FairAuction == WF_vars(NextAuction)

SpecAuctionFair == InitAuction /\ [][NextAuction]_vars /\ FairAuction

\* Scenario 3: three buses are called to South by a demand surge and may
\* each break down on the way; nobody asks for a trip.
InitRepair ==
  Setup(Fleet(Bus("University"), Bus("Central"), Bus("Airport")),
        <<"v1", "v2", "v3">>, 0, MaxFaults, 0,
        SendAll(NoMessages, "st1",
                demand_surge("st1", <<"v1", "v2", "v3">>, 3)))

NextRepair ==
  \/ \E v \in Vehicles : VehicleRun(v)
  \/ \E v \in Vehicles : VehicleIdle(v)
  \/ \E v \in Vehicles : Dispatcher(v)
  \/ \E j \in 1..Len(jobs) : JobAcquire(j)
  \/ \E j \in 1..Len(jobs) : JobFinish(j)

SpecRepair == InitRepair /\ [][NextRepair]_vars

\* The event loop of each agent runs whatever behaviour can run: the system
\* does not stop while a vehicle's loop, the dispatcher or a repair job has
\* a step to take.
FairRepair == WF_vars(NextRepair)

SpecRepairFair == InitRepair /\ [][NextRepair]_vars /\ FairRepair

\* Scenario 4: two buses with low tanks stand at South, one of them on
\* patrol; a passenger's call sends each of them to the depot, where they ask
\* the pump for fuel.
InitRefuel ==
  Setup(Fleet(LowPatrolBus("South"), LowBus("South"), Tram("North")),
        <<"v1", "v2">>, 1, 0, 0, NoMessages)

NextRefuel ==
  \/ \E p \in Passengers, d \in Destinations : TravelRequest("st1", p, d)
  \/ \E s \in SessionIds : SessionStart(s)
  \/ \E s \in SessionIds : Deadline(s)
  \/ \E s \in SessionIds : SessionReceive(s)
  \/ \E s \in SessionIds : SessionTimeout(s)
  \/ \E v \in Vehicles : VehicleRun(v)
  \/ \E v \in Vehicles : VehicleIdle(v)
  \/ \E v \in Vehicles : PumpArrive(v)
  \/ PumpReceive
  \/ PumpReply

SpecRefuel == InitRefuel /\ [][NextRefuel]_vars

\* Scenario 4 under fair scheduling: two buses with low tanks wait at South
\* without a patrol route; a passenger's call sends both to the depot.
InitRefuelFair ==
  Setup(Fleet(LowBus("South"), LowBus("South"), Tram("North")),
        <<"v1", "v2">>, 1, 0, 0, NoMessages)

\* The pump's cyclic behaviour and each vehicle's loop are scheduled again
\* and again by their event loops: the system does not stop while one of
\* them has a step to take.
FairRefuel == WF_vars(NextRefuel)

SpecRefuelFair == InitRefuelFair /\ [][NextRefuel]_vars /\ FairRefuel

\* Scenario 5: the traffic manager reports on its streets to one bus, which
\* rewrites the time costs of its copy of the map; nobody asks for a trip.
InitMap ==
  Setup(Fleet(Bus("South"), Bus("University"), Tram("North")), <<"v1">>,
        0, 0, MaxJams, NoMessages)

NextMap ==
  \/ \E e \in TrafficEdges, new_weight \in {ClearWeight} \cup JamWeights :
       TrafficJam(e, new_weight)
  \/ \E v \in Vehicles : VehicleRun(v)

SpecMap == InitMap /\ [][NextMap]_vars

\* Scenario 6: the station at East knows one tram; two passengers ask there
\* for the Stadium.
InitTram ==
  \E v3 \in {Tram("North"), Tram("Central")} :
    Setup(Fleet(Bus("South"), Bus("University"), v3), <<"v3">>,
          MaxSessions, 0, 0, NoMessages)

NextTram ==
  \/ \E p \in Passengers : TravelRequest("st2", p, "Stadium")
  \/ \E s \in SessionIds : SessionStart(s)
  \/ \E s \in SessionIds : Deadline(s)
  \/ \E s \in SessionIds : SessionReceive(s)
  \/ \E s \in SessionIds : SessionTimeout(s)
  \/ \E v \in Vehicles : VehicleRun(v)
  \/ \E v \in Vehicles : VehicleIdle(v)

SpecTram == InitTram /\ [][NextTram]_vars

\* Scenario 7: the station at South knows one bus, whose tank is full, just
\* above or below the low-fuel mark; two passengers ask there; the bus may
\* go to the depot and refuel.
InitFuel ==
  \E v1 \in {Bus("South"), LowBus("South"), TiredBus("South"),
              TiredBus("Airport")} :
    Setup(Fleet(v1, Bus("University"), Tram("North")), <<"v1">>,
          MaxSessions, 0, 0, NoMessages)

NextFuel ==
  \/ \E p \in Passengers, d \in Destinations : TravelRequest("st1", p, d)
  \/ \E s \in SessionIds : SessionStart(s)
  \/ \E s \in SessionIds : Deadline(s)
  \/ \E s \in SessionIds : SessionReceive(s)
  \/ \E s \in SessionIds : SessionTimeout(s)
  \/ \E v \in Vehicles : VehicleRun(v)
  \/ \E v \in Vehicles : VehicleIdle(v)
  \/ \E v \in Vehicles : PumpArrive(v)
  \/ PumpReceive
  \/ PumpReply

SpecFuel == InitFuel /\ [][NextFuel]_vars

\* Scenario 8: a bus stands at the Airport, with a full tank, with a tank
\* that covers a trip by distance but not by reported time, or with a tank
\* too low for the next street (fuel 4.0); one passenger asks at South for
\* the Airport and one traffic report is broadcast.
InitJam ==
  \E v1 \in {Bus("Airport"), SpentBus("Airport"),
              [Bus("Airport") EXCEPT !.fuel_level = 4 * FuelScale]} :
    Setup(Fleet(v1, Bus("University"), Tram("North")), <<"v1">>,
          1, 0, 1, NoMessages)

NextJam ==
  \/ \E p \in Passengers : TravelRequest("st1", p, "Airport")
  \/ \E s \in SessionIds : SessionStart(s)
  \/ \E s \in SessionIds : Deadline(s)
  \/ \E s \in SessionIds : SessionReceive(s)
  \/ \E s \in SessionIds : SessionTimeout(s)
  \/ \E v \in Vehicles : VehicleRun(v)
  \/ \E v \in Vehicles : VehicleIdle(v)
  \/ \E e \in TrafficEdges, new_weight \in {ClearWeight} \cup JamWeights :
       TrafficJam(e, new_weight)

SpecJam == InitJam /\ [][NextJam]_vars

\* Scenario 9: a bus patrols from South, with a full or a low tank, or from
\* West, and may break down on the way; the station at South knows it and
\* one passenger asks there, while a surge notice of the station at East is
\* on its way to the bus.
InitPatrol ==
  \E v1 \in {PatrolBus("South"), LowPatrolBus("South"), PatrolBus("West")} :
    Setup(Fleet(v1, Bus("University"), Tram("North")),
          <<"v1">>, 1, 1, 0,
          SendAll(NoMessages, "st2", demand_surge("st2", <<"v1">>, 3)))

NextPatrol ==
  \/ \E p \in Passengers, d \in Destinations : TravelRequest("st1", p, d)
  \/ \E s \in SessionIds : SessionStart(s)
  \/ \E s \in SessionIds : Deadline(s)
  \/ \E s \in SessionIds : SessionReceive(s)
  \/ \E s \in SessionIds : SessionTimeout(s)
  \/ \E v \in Vehicles : VehicleRun(v)
  \/ \E v \in Vehicles : VehicleIdle(v)
  \/ \E v \in Vehicles : Dispatcher(v)
  \/ \E j \in 1..Len(jobs) : JobAcquire(j)
  \/ \E j \in 1..Len(jobs) : JobFinish(j)

SpecPatrol == InitPatrol /\ [][NextPatrol]_vars

\* Scenario 10: the station at South knows one bus; a passenger asks there
\* and may ask again before the first answer.
InitRepeat ==
  Setup(Fleet(Bus("South"), Bus("University"), Tram("North")),
        <<"v1">>, MaxSessions, 0, 0, NoMessages)

NextRepeat ==
  \/ \E p \in Passengers, d \in Destinations : TravelRequest("st1", p, d)
  \/ \E p \in Passengers, d \in Destinations : TravelRequestAgain("st1", p, d)
  \/ \E s \in SessionIds : SessionStart(s)
  \/ \E s \in SessionIds : Deadline(s)
  \/ \E s \in SessionIds : SessionReceive(s)
  \/ \E s \in SessionIds : SessionTimeout(s)
  \/ \E v \in Vehicles : VehicleRun(v)

SpecRepeat == InitRepeat /\ [][NextRepeat]_vars

\* Scenario 12: a message whose body is not JSON is on its way to the bus
\* that the station at South knows; passengers ask there.
InitGarbled ==
  Setup(Fleet(Bus("University"), Bus("Airport"), Tram("North")),
        <<"v1">>, MaxSessions, 0, 0,
        SendAll(NoMessages, Traffic,
                <<Out("v1", Message(Traffic, "inform", NoThread, Unparsable))>>))

NextGarbled ==
  \/ \E p \in Passengers, d \in Destinations : TravelRequest("st1", p, d)
  \/ \E s \in SessionIds : SessionStart(s)
  \/ \E s \in SessionIds : Deadline(s)
  \/ \E s \in SessionIds : SessionReceive(s)
  \/ \E s \in SessionIds : SessionTimeout(s)
  \/ \E v \in Vehicles : VehicleRun(v)
  \/ \E v \in Vehicles : VehicleIdle(v)

SpecGarbled == InitGarbled /\ [][NextGarbled]_vars

\* A bus with two seats whose tank has run down to the low-fuel mark.
TourBus(start_location) ==
  [NewVehicle("bus", start_location, 2, <<>>) EXCEPT !.fuel_level = LowFuel]

\* Scenario 13: the stations at South and at East know the same bus, which
\* stands at North; a passenger asks at South for West and another at East
\* for the Airport, and the bus has hops enough to serve both.
InitTour ==
  /\ veh = Fleet(TourBus("North"), Bus("University"), Tram("North"))
  /\ known_vehicles = [x \in Stations \cup {Traffic} |-> <<"v1">>]
  /\ quota = MaxSessions
  /\ faults = 0
  /\ jams = 0
  /\ reported = InitWeight
  /\ hops = MaxTourHops
  /\ net = NoMessages
  /\ InitRest

NextTour ==
  \/ \E p \in Passengers : TravelRequest("st1", p, "West")
  \/ \E p \in Passengers : TravelRequest("st2", p, "Airport")
  \/ \E s \in SessionIds : SessionStart(s)
  \/ \E s \in SessionIds : Deadline(s)
  \/ \E s \in SessionIds : SessionReceive(s)
  \/ \E s \in SessionIds : SessionTimeout(s)
  \/ \E v \in Vehicles : VehicleRun(v)
  \/ \E v \in Vehicles : VehicleIdle(v)

SpecTour == InitTour /\ [][NextTour]_vars

\* Scenario 14: as scenario 13, but the passenger at South asks for East and
\* the passenger at East asks for South.
NextSwap ==
  \/ \E p \in Passengers : TravelRequest("st1", p, "East")
  \/ \E p \in Passengers : TravelRequest("st2", p, "South")
  \/ \E s \in SessionIds : SessionStart(s)
  \/ \E s \in SessionIds : Deadline(s)
  \/ \E s \in SessionIds : SessionReceive(s)
  \/ \E s \in SessionIds : SessionTimeout(s)
  \/ \E v \in Vehicles : VehicleRun(v)
  \/ \E v \in Vehicles : VehicleIdle(v)

SpecSwap == InitTour /\ [][NextSwap]_vars

\* Scenario 15: the stations at South and at East know the same bus with two
\* seats, which stands at Central with a full tank or one at the low-fuel
\* mark and has a surge notice of East on its way; a passenger asks at South
\* for Central and another at East for North; the bus may break down once;
\* workshop and pump are at work and every step is taken when it can be.
InitServe ==
  \E v1 \in {NewVehicle("bus", "Central", 2, <<>>), TourBus("Central")} :
    /\ veh = Fleet(v1, Bus("University"), Tram("North"))
    /\ known_vehicles = [x \in Stations \cup {Traffic} |-> <<"v1">>]
    /\ quota = MaxSessions
    /\ faults = 1
    /\ jams = 0
    /\ reported = InitWeight
    /\ hops = MaxServeHops
    /\ net = SendAll(NoMessages, "st2", demand_surge("st2", <<"v1">>, 3))
    /\ InitRest

NextServe ==
  \/ TravelRequest("st1", passenger_pool[1], "Central")
  \/ TravelRequest("st2", passenger_pool[2], "North")
  \/ \E s \in SessionIds : SessionStart(s)
  \/ \E s \in SessionIds : Deadline(s)
  \/ \E s \in SessionIds : SessionReceive(s)
  \/ \E s \in SessionIds : SessionTimeout(s)
  \/ \E v \in Vehicles : VehicleRun(v)
  \/ \E v \in Vehicles : VehicleIdle(v)
  \/ \E v \in Vehicles : Dispatcher(v)
  \/ \E j \in 1..Len(jobs) : JobAcquire(j)
  \/ \E j \in 1..Len(jobs) : JobFinish(j)
  \/ \E v \in Vehicles : PumpArrive(v)
  \/ PumpReceive
  \/ PumpReply

FairServe == WF_vars(NextServe)

SpecServeFair == InitServe /\ [][NextServe]_vars /\ FairServe

\* Scenario 11: traffic reports reach a vehicle in every operating state.  The
\* station at South and the traffic manager know one bus: either it answers
\* a passenger's call, travels and may break down, or its tank is low and the
\* call sends it to the pump, or its tank (fuel 4.0) does not even cover the
\* first street of the way there.
InitNews ==
  \E v1 \in {Bus("University"), LowBus("South"),
              [Bus("Airport") EXCEPT !.fuel_level = 4 * FuelScale]} :
    Setup(Fleet(v1, Bus("Airport"), Tram("North")),
          <<"v1">>, 1, 1, MaxJams, NoMessages)

NextNews ==
  \/ \E p \in Passengers, d \in Destinations : TravelRequest("st1", p, d)
  \/ \E s \in SessionIds : SessionStart(s)
  \/ \E s \in SessionIds : Deadline(s)
  \/ \E s \in SessionIds : SessionReceive(s)
  \/ \E s \in SessionIds : SessionTimeout(s)
  \/ \E v \in Vehicles : VehicleRun(v)
  \/ \E v \in Vehicles : VehicleIdle(v)
  \/ \E v \in Vehicles : Dispatcher(v)
  \/ \E j \in 1..Len(jobs) : JobAcquire(j)
  \/ \E j \in 1..Len(jobs) : JobFinish(j)
  \/ \E v \in Vehicles : PumpArrive(v)
  \/ PumpReceive
  \/ PumpReply
  \/ \E e \in NewsEdges, new_weight \in {ClearWeight} \cup JamWeights :
       TrafficJam(e, new_weight)

\* Every agent's event loop keeps running its behaviours: the system does
\* not stop while a step can be taken.
FairNews == WF_vars(NextNews)

SpecNewsFair == InitNews /\ [][NextNews]_vars /\ FairNews

\* ------------------------------------------------------------------ claims
AwardEvents == {"commit", "capacity_full_error", "bid_expired"}

\* C1: in every reachable state every vehicle carries at most `capacity`
\* manifest entries, whatever the interleaving of calls for proposals,
\* awards of concurrent sessions, drop-offs, breakdowns and refuels.
C1_ManifestWithinCapacity ==
  \A v \in Vehicles : Len(veh[v].manifest) <= veh[v].capacity

\* A full vehicle has refused an award and has broken down with its
\* passenger aboard.
C1_Witness ==
  \E v \in Vehicles :
    /\ Len(veh[v].manifest) = veh[v].capacity
    /\ veh[v].is_broken
    /\ \E i \in 1..Len(vlog[v]) : vlog[v][i].ev = "capacity_full_error"

\* C2: an award that reaches a vehicle whose manifest is at capacity is
\* answered with one REFUSE of reason capacity_full_error on the award's
\* thread, and manifest, waypoints and pending bids stay as they were.
C2_FullVehicleRefusesAward ==
  \A l \in Links :
    (/\ net[l] # <<>>
     /\ Head(net[l]).performative = "accept-proposal"
     /\ Len(veh[l[2]].manifest) >= veh[l[2]].capacity)
    => LET a == veh[l[2]]
           msg == Head(net[l])
           r == Dispatch(a, l[2], msg)
       IN /\ r.a.manifest = a.manifest
          /\ r.a.waypoints = a.waypoints
          /\ r.a.pending_bids = a.pending_bids
          /\ r.out = <<Out(msg.sender,
                           Message(l[2], "refuse", msg.thread,
                                   [reason |-> "capacity_full_error"]))>>

\* An award was refused for want of room and its bid is still pending.
C2_Witness ==
  \E v \in Vehicles :
    /\ Len(veh[v].manifest) = veh[v].capacity
    /\ \E i \in 1..Len(vlog[v]) :
         /\ vlog[v][i].ev = "capacity_full_error"
         /\ vlog[v][i].thread \in DOMAIN veh[v].pending_bids

\* Awards i and j of two sessions reach vehicle v, the first with exactly
\* one free slot, no drop-off in between.
TwoAwardsOneSlot(v, i, j) ==
  /\ i < j
  /\ vlog[v][i].ev \in AwardEvents \ {"bid_expired"}
  /\ vlog[v][j].ev \in AwardEvents \ {"bid_expired"}
  /\ vlog[v][i].thread # vlog[v][j].thread
  /\ vlog[v][i].load = veh[v].capacity - 1
  /\ \A k \in (i + 1)..(j - 1) : vlog[v][k].ev # "dropoff"

\* C3: when two sessions that hold a pending bid of one vehicle both award
\* it while it has exactly one free slot and nobody is dropped off in
\* between, the award delivered first is committed and the other one is
\* answered with capacity_full_error, in either order of delivery.
C3_OneOfTwoAwardsCommits ==
  \A v \in Vehicles :
    \A i, j \in 1..Len(vlog[v]) :
      TwoAwardsOneSlot(v, i, j)
      => /\ vlog[v][i].ev = "commit"
         /\ vlog[v][j].ev = "capacity_full_error"
         /\ vlog[v][j].load = vlog[v][i].load + 1

\* The later session's award came first and was committed; the earlier
\* session's award was refused.
C3_Witness ==
  \E v \in Vehicles :
    \E i, j \in 1..Len(vlog[v]) :
      /\ TwoAwardsOneSlot(v, i, j)
      /\ vlog[v][i].thread > vlog[v][j].thread
      /\ vlog[v][i].ev = "commit"
      /\ vlog[v][j].ev = "capacity_full_error"

\* The places in `sent[s]` of the session's messages of one performative.
SentAs(s, performative) ==
  {i \in 1..Len(sent[s]) : sent[s][i].msg.performative = performative}

MinEta(ps) == SetMin({ps[i].eta : i \in 1..Len(ps)})

\* The place of the first received among the bids of minimum ETA.
FirstBest(ps) ==
  CHOOSE i \in 1..Len(ps) :
    /\ ps[i].eta = MinEta(ps)
    /\ \A j \in 1..(i - 1) : ps[j].eta # MinEta(ps)

Terminal(s) == sess[s].pc \in {"Awarded", "Failed"}

\* C4: a session that collected one or more bids awards the bid of minimum
\* ETA among the collected bids, and among several bids of that ETA the one
\* received first.
C4_AwardToFirstMinimumEta ==
  \A s \in SessionIds :
    (Terminal(s) /\ sess[s].proposals # <<>>)
    => LET ps == sess[s].proposals
       IN /\ sess[s].pc = "Awarded"
          /\ SentAs(s, "accept-proposal") # {}
          /\ \A i \in SentAs(s, "accept-proposal") :
               /\ sent[s][i].to = ps[FirstBest(ps)].response.sender
               /\ sent[s][i].msg.thread = s

\* Two bids tie on the minimum ETA, v2's was received before v1's and a
\* third bid is worse: v2 holds the award.
C4_Witness ==
  \E s \in SessionIds :
    /\ sess[s].pc = "Awarded"
    /\ Len(sess[s].proposals) = 3
    /\ sess[s].proposals[1].response.sender = "v2"
    /\ \E i \in 2..3 :
         /\ sess[s].proposals[i].response.sender = "v1"
         /\ sess[s].proposals[i].eta = sess[s].proposals[1].eta
    /\ \E i \in 2..3 : sess[s].proposals[i].eta > sess[s].proposals[1].eta
    /\ \E i \in SentAs(s, "accept-proposal") : sent[s][i].to = "v2"

\* C5: a session that collected k >= 1 bids sends exactly one award, to the
\* winner, and exactly k-1 rejections of reason better_proposal_found, one
\* to each other bidder; the winner gets no rejection and no other bidder
\* an award.
C5_OneAwardAndRejections ==
  \A s \in SessionIds :
    (Terminal(s) /\ sess[s].proposals # <<>>)
    => LET ps == sess[s].proposals
           winner == ps[FirstBest(ps)].response.sender
           awards == SentAs(s, "accept-proposal")
           rejections == SentAs(s, "reject-proposal")
       IN /\ Cardinality(awards) = 1
          /\ \A i \in awards : sent[s][i].to = winner
          /\ Cardinality(rejections) = Len(ps) - 1
          /\ \A i \in rejections :
               /\ sent[s][i].msg.body = [reason |-> "better_proposal_found"]
               /\ sent[s][i].msg.thread = s
               /\ sent[s][i].to # winner
          /\ \A k \in 1..Len(ps) :
               k # FirstBest(ps)
               => Cardinality({i \in rejections :
                                 sent[s][i].to = ps[k].response.sender}) = 1

\* Three bids were collected: one award and two rejections are out.
C5_Witness ==
  \E s \in SessionIds :
    /\ sess[s].pc = "Awarded"
    /\ Len(sess[s].proposals) = 3
    /\ Cardinality(SentAs(s, "reject-proposal")) = 2
    /\ Cardinality(SentAs(s, "accept-proposal")) = 1

C6_AtMostOneAward ==
  \A s \in SessionIds :
    /\ Cardinality(SentAs(s, "accept-proposal")) <= 1
    /\ sess[s].pc = "Awarded" <=> Cardinality(SentAs(s, "accept-proposal")) = 1
    /\ sess[s].pc \in {"none", "start", "collect", "Awarded", "Failed"}

C6_TerminalIsFinal ==
  \A s \in SessionIds :
    Terminal(s) => /\ sess'[s] = sess[s]
                   /\ sent'[s] = sent[s]
                   /\ squeue'[s] = squeue[s]

\* C6: for every session id at most one award is ever sent, to one vehicle;
\* a session ends in exactly one of Awarded and Failed and from then on
\* neither changes nor sends nor receives anything.
C6_OneOutcomePerSession ==
  []C6_AtMostOneAward /\ [][C6_TerminalIsFinal]_vars

\* One session has ended Awarded and the other one Failed.
C6_Witness ==
  \E s, t \in SessionIds :
    /\ sess[s].pc = "Awarded"
    /\ sess[t].pc = "Failed"
    /\ Cardinality(SentAs(s, "accept-proposal")) = 1
    /\ SentAs(t, "accept-proposal") = {}

\* C7: a session that got no bid before its deadline ends as Failed, never
\* as Awarded: every Awarded session holds a bid that was received before
\* the deadline.
C7_NoBidInTimeFails ==
  \A s \in SessionIds :
    sess[s].pc = "Awarded"
    => \E i \in 1..Len(sess[s].proposals) : ~sess[s].proposals[i].late

\* The failure branch by itself: a session that ends with no collected bid is
\* Failed, its passenger is off the queue, and it has sent the passenger one
\* refusal of reason no_vehicles_available, or nothing at all.
FailureBranch ==
  \A s \in SessionIds :
    (Terminal(s) /\ sess[s].proposals = <<>>)
    => /\ sess[s].pc = "Failed"
       /\ sent[s] \in
            {CfpTo(sess[s].station, s,
                   format_cfp(location[sess[s].station], sess[s].destination, 1),
                   known_vehicles[sess[s].station]) \o tail :
               tail \in {<<>>,
                         <<Out(sess[s].passenger_jid,
                               Message(sess[s].station, "refuse", NoThread,
                                       [reason |-> "no_vehicles_available"]))>>}}

\* The step that ends a session with no bid notifies the passenger exactly
\* when it is still queued, and leaves it off the queue.
FailureStep ==
  \A s \in SessionIds :
    (sess[s].pc = "collect" /\ sess'[s].pc = "Failed")
    => LET st == sess[s].station
           p == sess[s].passenger_jid
       IN /\ p \notin Range(passenger_queue'[st])
          /\ Len(sent'[s]) - Len(sent[s]) =
               IF p \in Range(passenger_queue[st]) THEN 1 ELSE 0

FailurePath == []FailureBranch /\ [][FailureStep]_vars

\* C8: only a PROPOSE on the session's thread that is received before the
\* deadline counts as a bid, so the winner of a session is never a bid that
\* was received after the deadline.
C8_WinnerCameInTime ==
  \A s \in SessionIds :
    sess[s].pc = "Awarded"
    => ~sess[s].proposals[FirstBest(sess[s].proposals)].late

\* What the filter does keep out: every collected bid is a PROPOSE on the
\* session's thread, and awards and rejections go to collected bids only.
OnlyOwnProposals ==
  \A s \in SessionIds :
    /\ \A i \in 1..Len(sess[s].proposals) :
         /\ sess[s].proposals[i].response.thread = s
         /\ sess[s].proposals[i].response.performative = "propose"
    /\ \A i \in SentAs(s, "accept-proposal") \cup SentAs(s, "reject-proposal") :
         \E k \in 1..Len(sess[s].proposals) :
           sess[s].proposals[k].response.sender = sent[s][i].to

InService == {j \in 1..Len(jobs) : jobs[j].pc = "repairing"}

C9_SlotsBounded ==
  /\ Cardinality(InService) <= num_mechanics
  /\ sem = num_mechanics - Cardinality(InService)

C9_StartNeedsFreeSlot ==
  \A j \in 1..Len(jobs) :
    (jobs[j].pc = "waiting" /\ jobs'[j].pc = "repairing")
    => Cardinality(InService) < num_mechanics

\* C9: at no instant do more than N repair jobs hold a slot; with N slots
\* busy, a further job starts only after a running one has finished.
C9_AtMostNRepairs == []C9_SlotsBounded /\ [][C9_StartNeedsFreeSlot]_vars

\* Both mechanics are busy and a third job waits.
C9_Witness ==
  /\ Cardinality(InService) = num_mechanics
  /\ \E j \in 1..Len(jobs) : jobs[j].pc = "waiting"

\* No report is unread, every job is done and has sent one completion, the
\* mechanics are free and no vehicle is broken.
AllServed ==
  /\ \A v \in Vehicles : ~veh[v].is_broken /\ net[<<v, Mechanic>>] = <<>>
  /\ \A j \in 1..Len(jobs) : jobs[j].pc = "done" /\ jobs[j].completions = 1
  /\ sem = num_mechanics

OneCompletionPerJob ==
  \A j \in 1..Len(jobs) :
    jobs[j].completions = IF jobs[j].pc = "done" THEN 1 ELSE 0

\* C10: under fair scheduling every breakdown report becomes a job, every
\* job gets a slot, gives it back and sends exactly one completion, and
\* every vehicle that broke down is back in service: from some moment on
\* nothing is left to serve, and no job ever sends a second completion.
C10_EveryBreakdownServed == <>[]AllServed /\ []OneCompletionPerJob

\* Three jobs are done, one completion each, the mechanics are free and
\* the three vehicles are back in service.
C10_Witness ==
  /\ Len(jobs) = 3
  /\ \A j \in 1..Len(jobs) : jobs[j].pc = "done" /\ jobs[j].completions = 1
  /\ sem = num_mechanics
  /\ \A v \in Vehicles :
       ~veh[v].is_broken /\ net[<<Mechanic, v>>] = <<>>


IsArrive(x) == x.ev = "arrive"
IsStart(x) == x.ev = "start"
IsReply(x) == x.ev = "reply"
PumpEvents(k, kind) == Cardinality({i \in 1..k : pump.log[i].ev = kind})

\* C11: the pump has at most one request in service at any instant and
\* serves the requests in the order of their arrival: the requests taken
\* into service are, in order, the first ones that arrived, the replies are
\* sent in that order, and no request is taken into service before the reply
\* to every earlier one has been sent.
C11_OneAtATimeInArrivalOrder ==
  LET arrived == SelectSeq(pump.log, IsArrive)
      started == SelectSeq(pump.log, IsStart)
      replied == SelectSeq(pump.log, IsReply)
  IN /\ Len(started) - Len(replied) = (IF pump.busy THEN 1 ELSE 0)
     /\ Len(started) <= Len(arrived)
     /\ \A i \in 1..Len(started) : started[i].msg = arrived[i].msg
     /\ \A i \in 1..Len(replied) : replied[i].msg = started[i].msg
     /\ \A k \in 1..Len(pump.log) :
          pump.log[k].ev = "start" =>
            PumpEvents(k - 1, "start") = PumpEvents(k - 1, "reply")

\* A request arrived while another was in service and was served after it.
C11_Witness ==
  \E k1, k2, k3, k4 \in 1..Len(pump.log) :
    /\ k1 < k2 /\ k2 < k3 /\ k3 < k4
    /\ pump.log[k1].ev = "start"
    /\ pump.log[k2].ev = "arrive"
    /\ pump.log[k3].ev = "reply" /\ pump.log[k3].msg = pump.log[k1].msg
    /\ pump.log[k4].ev = "start" /\ pump.log[k4].msg = pump.log[k2].msg

VehicleTypes == {"bus", "tram"}

\* Every query on a map copy with time costs w: <<class, from, to, path>>.
Queries(w) ==
  {<<t, a, b, get_shortest_path(w, a, b, t)>> :
     t \in VehicleTypes, a \in Nodes, b \in Nodes}

EdgesOf(path) == {<<path[i], path[i + 1]>> : i \in 1..(Len(path) - 1)}

\* C12: for every vehicle class, every pair of nodes and every assignment of
\* time costs that traffic reports produce, every edge of the returned path
\* is an edge of the map whose permitted classes include the class.
C12_PathUsesPermittedEdges ==
  \A v \in Vehicles :
    \A q \in Queries(veh[v].weight) :
      \A e \in EdgesOf(q[4]) : e \in Edges /\ q[1] \in allowed_types[e]

\* A jam on Central-East has been applied and the tram's path from Central
\* to the Stadium goes round it on tram-permitted edges, while a bus still
\* gets no path from East to the Stadium.
C12_Witness ==
  LET w == veh["v1"].weight
  IN /\ w[<<"Central", "East">>] \in JamWeights
     /\ get_shortest_path(w, "Central", "Stadium", "tram")
          = <<"Central", "North", "East", "Stadium">>
     /\ get_shortest_path(w, "East", "Stadium", "bus") = NoPath

RECURSIVE ReachableFrom(_, _)
\* The nodes that directed paths over the edge set P reach from the set S.
ReachableFrom(P, S) ==
  LET S1 == S \cup {e[2] : e \in {x \in P : x[1] \in S}}
  IN IF S1 = S THEN S ELSE ReachableFrom(P, S1)

\* C13: the search returns the distinguished value NoPath exactly when no
\* directed path over the edges permitted to the class leads from the start
\* to the destination, whatever the time costs; on the map as created a bus
\* gets NoPath from East to Stadium and a tram gets NoPath from South to
\* Airport.
C13_NoPathIffUnreachable ==
  /\ \A v \in Vehicles :
       \A q \in Queries(veh[v].weight) :
         (q[4] = NoPath) <=> (q[3] \notin ReachableFrom(Passable(q[1]), {q[2]}))
  /\ get_shortest_path(InitWeight, "East", "Stadium", "bus") = NoPath
  /\ get_shortest_path(InitWeight, "South", "Airport", "tram") = NoPath

\* A jam on South-Airport has been applied: the tram still gets NoPath from
\* South to Airport and the bus still gets a path.
C13_Witness ==
  LET w == veh["v1"].weight
  IN /\ w[<<"South", "Airport">>] \in JamWeights
     /\ get_shortest_path(w, "South", "Airport", "tram") = NoPath
     /\ get_shortest_path(w, "South", "Airport", "bus") # NoPath

PathOf(Q, t, a, b) == (CHOOSE q \in Q : q[1] = t /\ q[2] = a /\ q[3] = b)[4]

\* The paths of Q from a for class t are cheapest under w: each leads from a
\* to its target, the path to a itself costs nothing, and no permitted edge
\* <<u, b>> from a reached node u gives b a cheaper way than the path
\* returned for b.  By induction along any permitted path from a, the
\* returned path then costs no more than that path.
CheapestFrom(Q, w, t, a) ==
  LET cost(b) == get_total_time(w, PathOf(Q, t, a, b))
      found(b) == PathOf(Q, t, a, b) # NoPath
  IN /\ found(a) /\ cost(a) = 0
     /\ \A b \in Nodes :
          found(b) =>
            LET path == PathOf(Q, t, a, b)
            IN path[1] = a /\ path[Len(path)] = b
     /\ \A e \in Passable(t) :
          found(e[1]) => found(e[2]) /\ cost(e[2]) <= cost(e[1]) + w[e]

\* C14: the returned path has the minimum sum of current time costs among
\* all directed paths from the start to the destination over the edges
\* permitted to the class; on the map as created the tram's path from North
\* to Stadium is North, East, Stadium.
C14_PathHasMinimumTime ==
  /\ \A v \in Vehicles :
       \E Q \in {Queries(veh[v].weight)} :
         \A t \in VehicleTypes, a \in Nodes :
           CheapestFrom(Q, veh[v].weight, t, a)
  /\ get_shortest_path(InitWeight, "North", "Stadium", "tram")
       = <<"North", "East", "Stadium">>

\* A jam of 60 on Airport-South has been applied and the bus is sent from
\* the Airport to South by East and Central, which takes 57.
C14_Witness ==
  LET w == veh["v1"].weight
      path == get_shortest_path(w, "Airport", "South", "bus")
  IN /\ w[<<"Airport", "South">>] = 60
     /\ path = <<"Airport", "East", "Central", "South">>
     /\ get_total_time(w, path) = 57

IsTrafficUpdate(msg) ==
  msg.performative = "inform" /\ Get(msg.body, "type") = "traffic_update"

\* The distance costs of every map copy are those of the map's creation.
C15_DistanceKept ==
  \A v \in Vehicles :
    \A e \in Edges :
      /\ veh[v].base_weight[e] = base_weight[e]
      /\ get_total_distance(veh[v].base_weight, <<e[1], e[2]>>) = base_weight[e]
      /\ get_total_time(veh[v].weight, <<e[1], e[2]>>) = veh[v].weight[e]

\* A vehicle that takes a traffic update for an edge of its map reads the
\* reported cost as the time of that edge and the creation value as its
\* distance, and no time cost changes in any other way.
C15_UpdateStep ==
  \A v \in Vehicles :
    /\ \A l \in Links :
         (/\ l[2] = v /\ net[l] # <<>> /\ net'[l] = Tail(net[l])
          /\ IsTrafficUpdate(Head(net[l]))
          /\ Head(net[l]).body.edge \in Edges)
         => LET e == Head(net[l]).body.edge
                path == <<e[1], e[2]>>
            IN /\ get_total_time(veh'[v].weight, path)
                    = Head(net[l]).body.new_weight
               /\ get_total_distance(veh'[v].base_weight, path) = base_weight[e]
               /\ \A f \in Edges \ {e} : veh'[v].weight[f] = veh[v].weight[f]
    /\ veh'[v].weight # veh[v].weight
         => \E l \in Links :
              /\ l[2] = v /\ net[l] # <<>> /\ net'[l] = Tail(net[l])
              /\ IsTrafficUpdate(Head(net[l]))

\* C15: after any sequence of traffic updates applied to a vehicle's copy of
\* the map the distance cost of every edge equals its creation value: the
\* distance of a fixed path stays the same while its time is that of the
\* reported costs.
C15_TrafficChangesTimeOnly == []C15_DistanceKept /\ [][C15_UpdateStep]_vars

\* Two updates have been applied: Central-North takes 60 while the path
\* Central, North still measures 10.
C15_Witness ==
  /\ jams = 0
  /\ \A l \in Links : net[l] = <<>>
  /\ get_total_time(veh["v1"].weight, <<"Central", "North">>) = 60
  /\ get_total_distance(veh["v1"].base_weight, <<"Central", "North">>) = 10

Trams == {v \in Vehicles : veh[v].vehicle_type = "tram"}

\* Tank levels a vehicle could be at: empty, just below the low-fuel mark,
\* full.
TankLevels == {0, LowFuel - 1, FuelFull}

FuelRefusals == {"low_fuel", "insufficient_fuel_safety"}

IsFuelRefusal(msg) ==
  msg.performative = "refuse" /\ Get(msg.body, "reason") \in FuelRefusals

\* What the tram v would do with the tank level f on the message msg and on
\* a run without a message.
TramOnMessage(v, f, msg) ==
  LET r1 == Dispatch([veh[v] EXCEPT !.fuel_level = f], v, msg)
  IN Then(r1, Progress(r1.a, v, FALSE))
TramIdle(v, f) == Progress([veh[v] EXCEPT !.fuel_level = f], v, FALSE)

FuelBlind(r, f) ==
  /\ r.a.fuel_level = f
  /\ \A i \in 1..Len(r.out) : ~IsFuelRefusal(r.out[i].msg)
  /\ \A i \in 1..Len(r.ev) : r.ev[i].ev # "no_fuel"

\* C16: a tram's fuel is never read or decremented: in every reachable
\* state its fuel equals the initial value, and whatever its tank held, its
\* answer to a call for proposals would be neither low_fuel nor
\* insufficient_fuel_safety, its next step would report no no_fuel breakdown
\* and its tank would be left as it was; no such refusal of a tram is queued
\* at a station.
C16_TramFuelUntouched ==
  \A v \in Trams :
    /\ veh[v].fuel_level = FuelFull
    /\ \A f \in TankLevels :
         /\ FuelBlind(TramIdle(v, f), f)
         /\ \A l \in Links :
              (l[2] = v /\ net[l] # <<>>)
                => FuelBlind(TramOnMessage(v, f, Head(net[l])), f)
    /\ \A s \in SessionIds :
         \A i \in 1..Len(squeue[s]) :
           squeue[s][i].response.sender = v
             => ~IsFuelRefusal(squeue[s][i].response)

\* The tram has bid, carried a passenger to the Stadium and set them down.
C16_Witness ==
  \E v \in Trams :
    /\ veh[v].current_location = "Stadium"
    /\ \E i \in 1..Len(vlog[v]) : vlog[v][i].ev = "dropoff"
    /\ veh[v].fuel_level = FuelFull

\* The calls for proposals a vehicle may get: from either station, on a
\* session's thread or on none, for a destination that buses reach, that
\* only trams reach, or that is far from the depot.
Calls ==
  {Message(st, "cfp", t, format_cfp(location[st], d, 1)) :
     st \in Stations, t \in {NoThread} \cup SessionIds,
     d \in {"University", "Stadium", "Airport"}}

\* The calls at the head of a link to v.
CallsAtHand(v) ==
  {m \in {Head(net[l]) : l \in {k \in Links : k[2] = v /\ net[k] # <<>>}} :
     m.performative = "cfp"}

IsRefusal(v, msg, out, reason) ==
  /\ Len(out) = 1
  /\ out[1].to = msg.sender
  /\ out[1].msg.sender = v
  /\ out[1].msg.performative = "refuse"
  /\ out[1].msg.thread = msg.thread
  /\ out[1].msg.body.reason = reason

LowOnFuel(v) == veh[v].vehicle_type # "tram" /\ veh[v].fuel_level < LowFuel

\* The low-fuel answer of v to msg, the depot being enqueued when `idle`.
LowFuelAnswer(v, msg, idle) ==
  LET r == handle_cfp(veh[v], v, msg)
  IN /\ IsRefusal(v, msg, r.out, "low_fuel")
     /\ r.a.pending_bids = veh[v].pending_bids
     /\ r.a = [veh[v] EXCEPT !.waypoints =
                               IF idle THEN Append(@, "GasStation") ELSE @]

\* C17: a non-tram vehicle with fuel below 30 answers every call for
\* proposals with a refusal of reason low_fuel and records no pending bid; if
\* its manifest is empty, it is not being refuelled and the depot is not in
\* its waypoint queue, the depot is appended to the queue, otherwise the
\* queue is unchanged.
C17_LowFuelRefusesAndHeadsToDepot ==
  \A v \in Vehicles :
    LowOnFuel(v) =>
      \A msg \in Calls \cup CallsAtHand(v) :
        LowFuelAnswer(v, msg,
                      /\ veh[v].manifest = <<>>
                      /\ ~veh[v].is_refueling
                      /\ "GasStation" \notin Range(veh[v].waypoints))

\* C17 as stated: the depot is enqueued whenever the manifest is empty and
\* the depot is not in the waypoint queue.
C17_DepotEnqueuedWheneverEmpty ==
  \A v \in Vehicles :
    LowOnFuel(v) =>
      \A msg \in Calls \cup CallsAtHand(v) :
        LowFuelAnswer(v, msg,
                      /\ veh[v].manifest = <<>>
                      /\ "GasStation" \notin Range(veh[v].waypoints))

\* A low bus that a call sent to the depot is called again while the pump
\* fills it.
C17_Witness ==
  \E v \in Vehicles :
    /\ LowOnFuel(v)
    /\ \E msg \in CallsAtHand(v) : msg.thread # NoThread
    /\ veh[v].is_refueling
    /\ veh[v].manifest = <<>>
    /\ veh[v].waypoints = <<>>

\* The four checks of the bid evaluation, each from the vehicle's fields and
\* the call alone.
LowFuelFails(a) == a.vehicle_type # "tram" /\ a.fuel_level < LowFuel
CapacityFails(a) == Len(a.manifest) >= a.capacity
PickupLeg(a, msg) ==
  get_shortest_path(a.weight, a.current_location, msg.body.origin,
                    a.vehicle_type)
TripLeg(a, msg) ==
  get_shortest_path(a.weight, msg.body.origin, msg.body.destination,
                    a.vehicle_type)
DepotLeg(a, msg) ==
  get_shortest_path(a.weight, msg.body.destination, "GasStation", "bus")
RouteFails(a, msg) == PickupLeg(a, msg) = NoPath \/ TripLeg(a, msg) = NoPath
\* Fuel for the two legs plus the reserve: the distance from the destination
\* to the depot and the fixed buffer.
FuelWithReserve(a, msg) ==
  get_total_distance(a.base_weight, PickupLeg(a, msg))
    + get_total_distance(a.base_weight, TripLeg(a, msg))
    + get_total_distance(a.base_weight, DepotLeg(a, msg))
    + SafetyBuffer
FuelSafetyFails(a, msg) ==
  a.vehicle_type # "tram" /\ a.fuel_level < FuelWithReserve(a, msg)

FirstFailing(a, msg) ==
  IF LowFuelFails(a) THEN "low_fuel"
  ELSE IF CapacityFails(a) THEN "full_capacity"
  ELSE IF RouteFails(a, msg) THEN "route_impossible"
  ELSE IF FuelSafetyFails(a, msg) THEN "insufficient_fuel_safety"
  ELSE "none"

IsBidReply(v, msg, out) ==
  /\ Len(out) = 1
  /\ out[1].to = msg.sender
  /\ out[1].msg.sender = v
  /\ out[1].msg.performative = "propose"
  /\ out[1].msg.thread = msg.thread
  /\ out[1].msg.body.type = "bid"

\* C18: the bid evaluation applies its checks in the order low_fuel,
\* full_capacity, route_impossible, insufficient_fuel_safety: every call for
\* proposals gets exactly one reply, a refusal with the reason of the first
\* failing check or a bid when no check fails, and a refusal records no
\* pending bid.
C18_FirstFailingCheckAnswers ==
  \A v \in Vehicles :
    \A msg \in Calls \cup CallsAtHand(v) :
      LET r == handle_cfp(veh[v], v, msg)
          reason == FirstFailing(veh[v], msg)
      IN IF reason = "none"
         THEN IsBidReply(v, msg, r.out)
         ELSE /\ IsRefusal(v, msg, r.out, reason)
              /\ r.a.pending_bids = veh[v].pending_bids

\* A bus that is full and low on fuel is called: it answers low_fuel.
C18_Witness ==
  \E v \in Vehicles :
    /\ LowFuelFails(veh[v]) /\ CapacityFails(veh[v])
    /\ \E msg \in CallsAtHand(v) :
         IsRefusal(v, msg, handle_cfp(veh[v], v, msg).out, "low_fuel")

\* C19: the ETA carried in a bid is the travel time of the pickup leg: the
\* sum of the current time costs along the shortest path, over the edges
\* permitted to the vehicle's class, from its location to the origin.
C19_EtaIsPickupTime ==
  \A v \in Vehicles :
    \A msg \in CallsAtHand(v) :
      LET r == handle_cfp(veh[v], v, msg)
      IN IsBidReply(v, msg, r.out)
           => r.out[1].msg.body.eta
                = get_total_time(veh[v].weight, PickupLeg(veh[v], msg))

\* C20: a non-tram that passed the earlier checks refuses with
\* insufficient_fuel_safety exactly when its fuel is below the fuel for the
\* pickup and trip legs plus the distance of the path from the destination
\* to the depot plus 15, all sums of distance costs.
C20_ReserveByDistance ==
  \A v \in Vehicles :
    \A msg \in CallsAtHand(v) :
      LET a == veh[v]
          r == handle_cfp(a, v, msg)
      IN (/\ a.vehicle_type # "tram"
          /\ ~LowFuelFails(a) /\ ~CapacityFails(a) /\ ~RouteFails(a, msg))
         => (IsRefusal(v, msg, r.out, "insufficient_fuel_safety")
               <=> a.fuel_level < FuelWithReserve(a, msg))

IsRefuelRequest(msg, amount) ==
  /\ msg.performative = "request"
  /\ msg.body = [type |-> "refuel_request", amount_needed |-> amount]

IsRefueled(msg) == Get(msg.body, "status") = "refueled"

\* The waypoints of v are not consumed in the step: they are all still
\* queued, in their order.
WaypointsKept(v) ==
  \E i \in 0..Len(veh'[v].waypoints) :
    SubSeq(veh'[v].waypoints, i + 1, i + Len(veh[v].waypoints))
      = veh[v].waypoints

\* A vehicle enters Refueling at the depot with exactly one refuel request,
\* for 100 minus its fuel, sent to the pump.
C21_EntersRefueling ==
  \A v \in Vehicles :
    (~veh[v].is_refueling /\ veh'[v].is_refueling)
      => /\ veh[v].current_location = "GasStation"
         /\ veh'[v].current_location = "GasStation"
         /\ "GasStation" \in Range(veh[v].waypoints)
         /\ Len(net'[<<v, Pump>>]) = Len(net[<<v, Pump>>]) + 1
         /\ IsRefuelRequest(net'[<<v, Pump>>][Len(net'[<<v, Pump>>])],
                            FuelFull - veh'[v].fuel_level)

\* While it is Refueling a vehicle does not move, burns no fuel, consumes no
\* waypoint and sends no further request; it leaves Refueling only by taking
\* the pump's completion.
C21_StaysPut ==
  \A v \in Vehicles :
    veh[v].is_refueling
      => /\ veh'[v].is_refueling
              => /\ veh'[v].current_location = veh[v].current_location
                 /\ veh'[v].fuel_level = veh[v].fuel_level
                 /\ WaypointsKept(v)
                 /\ Len(net'[<<v, Pump>>]) <= Len(net[<<v, Pump>>])
         /\ ~veh'[v].is_refueling
              => /\ net[<<Pump, v>>] # <<>>
                 /\ IsRefueled(Head(net[<<Pump, v>>]))
                 /\ net'[<<Pump, v>>] = Tail(net[<<Pump, v>>])

\* Taking the completion sets the fuel to 100, clears Refueling and leaves
\* the vehicle at the depot, not broken.
C21_Completion ==
  \A v \in Vehicles :
    (veh[v].is_refueling /\ net[<<Pump, v>>] # <<>>
       /\ IsRefueled(Head(net[<<Pump, v>>])))
      => LET a == Dispatch(veh[v], v, Head(net[<<Pump, v>>])).a
         IN /\ a.fuel_level = FuelFull
            /\ ~a.is_refueling /\ ~a.is_broken
            /\ a.current_location = "GasStation"
            /\ a.waypoints = veh[v].waypoints

\* C21: a vehicle that pops the depot as its head waypoint while it stands
\* there sends one refuel request for 100 minus its fuel and enters
\* Refueling; until it takes the completion it makes no movement step; taking
\* the completion sets its fuel to 100 and returns it to Idle.
C21_RefuelingHoldsTheVehicle ==
  /\ [][C21_EntersRefueling /\ C21_StaysPut]_vars
  /\ []C21_Completion

\* The bus on patrol has been refuelled at the depot and has left it on its
\* patrol.
C21_Witness ==
  /\ veh["v1"].patrol_route # <<>>
  /\ \E i \in 1..Len(pump.log) :
       pump.log[i].ev = "reply" /\ pump.log[i].msg.sender = "v1"
  /\ ~veh["v1"].is_refueling
  /\ veh["v1"].current_location # "GasStation"

\* C22: a vehicle that is Broken halts all other processing until it is
\* repaired: it answers no call with a bid, and an award it is dealt changes
\* neither its manifest nor its waypoints.
C22_BrokenVehicleHalts ==
  \A v \in Vehicles :
    veh[v].is_broken
      => \A l \in {k \in Links : k[2] = v /\ net[k] # <<>>} :
           LET msg == Head(net[l])
               r == Dispatch(veh[v], v, msg)
           IN msg.performative \in {"cfp", "accept-proposal"}
                => /\ ~IsBidReply(v, msg, r.out)
                   /\ r.a.manifest = veh[v].manifest
                   /\ r.a.waypoints = veh[v].waypoints

\* With either flag set, the rest of a pass of run (patrol and movement)
\* leaves the vehicle as it is and sends nothing, fault or no fault.
C23_NoMoveUnderFlag ==
  \A v \in Vehicles, fault \in BOOLEAN :
    (veh[v].is_broken \/ veh[v].is_refueling)
      => Progress(veh[v], v, fault) = Result(veh[v], <<>>, <<>>)

\* A vehicle that changes place or burns fuel in a step either had both
\* flags clear, or took in that step the completion that cleared them.
C23_MovesOnlyInService ==
  \A v \in Vehicles :
    (veh'[v].current_location # veh[v].current_location
       \/ veh'[v].fuel_level < veh[v].fuel_level)
      => \/ Operating(veh[v])
         \/ \E l \in Links :
              /\ l[2] = v /\ net[l] # <<>>
              /\ Operating(Dispatch(veh[v], v, Head(net[l])).a)
              /\ veh'[v].current_location
                   # Dispatch(veh[v], v, Head(net[l])).a.current_location

\* C23: a vehicle is in one operating state at a time: Broken and Refueling
\* are never both set, and no movement step (change of place, fuel burnt)
\* is taken while either is set.
C23_OneOperatingState ==
  /\ [](\A v \in Vehicles : ~(veh[v].is_broken /\ veh[v].is_refueling))
  /\ []C23_NoMoveUnderFlag
  /\ [][C23_MovesOnlyInService]_vars

\* A bus that broke down on its way and was repaired now waits at the pump.
C23_Witness ==
  /\ veh["v1"].is_refueling
  /\ ~veh["v1"].is_broken
  /\ \E j \in 1..Len(jobs) : jobs[j].pc = "done"

\* The sessions of a passenger at a station that have not reached an outcome.
LiveSessions(st, p) ==
  {s \in SessionIds :
     /\ sess[s].station = st /\ sess[s].passenger_jid = p
     /\ sess[s].pc \in {"start", "collect"}}

\* C24: a station creates a session for a travel request only when it has no
\* active session for that passenger: a passenger has at most one live
\* session and stands at most once in the wait-queue.
C24_OneSessionPerPassenger ==
  \A st \in Stations, p \in Passengers :
    /\ Cardinality(LiveSessions(st, p)) <= 1
    /\ Cardinality({i \in 1..Len(passenger_queue[st]) :
                      passenger_queue[st][i] = p}) <= 1

\* C25: a session whose passenger has cancelled and left the wait-queue
\* before the collection window closed concludes without an award to any
\* vehicle and without a notification to the passenger.
C25_CancelledSessionSendsNothing ==
  \A s \in SessionIds :
    (/\ sess[s].pc = "collect"
     /\ sess[s].passenger_jid \notin Range(passenger_queue[sess[s].station]))
      => /\ Verdict(s, sess[s].proposals).awards = <<>>
         /\ Verdict(s, sess[s].proposals).notice = <<>>

\* Pairs of nodes that no street joins in that direction.
NoStreets ==
  {<<"South", "Stadium">>, <<"Stadium", "East">>, <<"North", "Stadium">>}

\* The updates a vehicle may be dealt: those the traffic manager can send and
\* updates that name no street.
UpdatesToTry ==
  {Message(Traffic, "inform", NoThread,
           [type |-> "traffic_update", edge |-> e, new_weight |-> nw]) :
     e \in TrafficEdges \cup NoStreets, nw \in {ClearWeight} \cup JamWeights}

\* What the handler does with an update: the named street's time in this
\* copy takes the reported value, every other street's time and every other
\* field of the vehicle stay, and nothing is sent; an update that names no
\* street leaves the vehicle as it is.
C26_HandlerFrame ==
  \A v \in Vehicles, msg \in UpdatesToTry :
    LET e == msg.body.edge
        r == Dispatch(veh[v], v, msg)
    IN /\ r.out = <<>>
       /\ \A f \in (DOMAIN veh[v]) \ {"weight"} : r.a[f] = veh[v][f]
       /\ DOMAIN r.a.weight = Edges
       /\ \A f \in Edges \ {e} : r.a.weight[f] = veh[v].weight[f]
       /\ e \in Edges => r.a.weight[e] = msg.body.new_weight
       /\ e \notin Edges => r.a = veh[v]

\* A street's time in a vehicle's copy changes only in a step in which that
\* vehicle takes an update naming that street, and then to the reported
\* value; the copies of the other vehicles stay.
C26_OwnCopyOnly ==
  \A u \in Vehicles, e \in Edges :
    veh'[u].weight[e] # veh[u].weight[e]
      => \E l \in Links :
           /\ l[2] = u /\ net[l] # <<>> /\ net'[l] = Tail(net[l])
           /\ IsTrafficUpdate(Head(net[l]))
           /\ Head(net[l]).body.edge = e
           /\ Head(net[l]).body.new_weight = veh'[u].weight[e]
           /\ \A x \in Vehicles \ {u} : veh'[x].weight = veh[x].weight

\* C26: a traffic update taken by one vehicle rewrites only the time cost of
\* the named edge in that vehicle's copy of the map; the other vehicles'
\* copies, every other edge's time cost and the permitted classes of every
\* edge stay, and an update naming an edge that does not exist changes
\* nothing.
C26_UpdateTouchesOneEdge == []C26_HandlerFrame /\ [][C26_OwnCopyOnly]_vars

\* The bus knows Central-North as jammed and its way back as clear.
C26_Witness ==
  /\ veh["v1"].weight[<<"Central", "North">>] \in JamWeights
  /\ veh["v1"].weight[<<"North", "Central">>] = InitWeight[<<"North", "Central">>]
  /\ veh["v2"].weight = InitWeight

\* Every vehicle the traffic manager knows holds, for every edge, the time
\* cost last broadcast for it (the creation value where none was).
C27_Consistent ==
  \A i \in 1..Len(known_vehicles[Traffic]) :
    \A e \in Edges : veh[known_vehicles[Traffic][i]].weight[e] = reported[e]

\* C27: once the traffic manager has broadcast its last update, every
\* vehicle's view comes to agree with the last update broadcast for every
\* edge and stays so, whatever the vehicle was doing when the updates were
\* sent.
C27_EventuallyConsistent == <>[]C27_Consistent

\* Two reports were broadcast and the bus, which waits at the pump, holds the
\* last one.
C27_Witness ==
  /\ jams = 0
  /\ net[<<Traffic, "v1">>] = <<>>
  /\ reported # InitWeight
  /\ veh["v1"].weight = reported
  /\ veh["v1"].is_refueling

\* C28: a message whose body cannot be parsed is ignored: the vehicle that
\* receives it does not stop, so that every vehicle's behaviour is running
\* in every reachable state and handles the messages that follow.
C28_UnparsableIgnored == \A v \in Vehicles : ~veh[v].is_killed

\* The vehicle stands at the stop it is about to process and a passenger of
\* its manifest gets off there.
AtDropOff(v) ==
  /\ veh[v].waypoints # <<>>
  /\ Head(veh[v].waypoints) = veh[v].current_location
  /\ \E i \in 1..Len(veh[v].manifest) :
       veh[v].manifest[i].dest = veh[v].current_location

\* The fuel the way from the vehicle's place to the depot takes.
FuelToDepot(v) ==
  get_total_distance(veh[v].base_weight,
                     get_shortest_path(veh[v].weight, veh[v].current_location,
                                       "GasStation", "bus"))

\* C29: whenever a vehicle that burns fuel drops off a passenger, the fuel it
\* has left covers the shortest path from that stop to the depot.
C29_DepotInReachAtDropOff ==
  \A v \in Vehicles :
    (BurnsFuel(veh[v]) /\ AtDropOff(v)) => veh[v].fuel_level >= FuelToDepot(v)

\* The nodes a bus can stand on: every node that a street open to buses
\* touches.
BusNodes == {n \in Nodes : \E e \in Edges : "bus" \in allowed_types[e] /\ n \in {e[1], e[2]}}

\* A path from a to b: it starts at a and ends at b.
Joins(path, a, b) == path # NoPath /\ path[1] = a /\ path[Len(path)] = b

\* C30: on the sample map, under the time costs of every vehicle's copy, the
\* bus query finds a path from every node a bus can stand on to the depot and
\* one from the depot back to it, and the tram query finds no path to the
\* depot from any other node.
C30_DepotOpenToBusesOnly ==
  /\ {"University", "North"} \subseteq BusNodes
  /\ \A v \in Vehicles :
       /\ \A n \in BusNodes :
            /\ Joins(get_shortest_path(veh[v].weight, n, "GasStation", "bus"),
                     n, "GasStation")
            /\ Joins(get_shortest_path(veh[v].weight, "GasStation", n, "bus"),
                     "GasStation", n)
       /\ \A n \in Nodes \ {"GasStation"} :
            get_shortest_path(veh[v].weight, n, "GasStation", "tram") = NoPath

\* With Central-North jammed the bus still finds its way from University to
\* the depot and from the depot to North, now by East.
C30_Witness ==
  /\ veh["v1"].weight[<<"Central", "North">>] = 60
  /\ get_shortest_path(veh["v1"].weight, "University", "GasStation", "bus")
       = <<"University", "South", "GasStation">>
  /\ get_shortest_path(veh["v1"].weight, "GasStation", "North", "bus")
       = <<"GasStation", "South", "Central", "East", "North">>

\* The surge notices a vehicle may be dealt: one for each station of the
\* model and one naming the node the vehicle stands on.
SurgesToTry(v) ==
  {Message(st, "inform", NoThread,
           [type |-> "demand_surge", station |-> n, count |-> 3]) :
     st \in Stations,
     n \in {location[x] : x \in Stations} \cup {veh[v].current_location}}

\* The surge notices at the head of a link to v.
SurgesAtHand(v) ==
  {m \in {Head(net[l]) : l \in {k \in Links : k[2] = v /\ net[k] # <<>>}} :
     m.performative = "inform" /\ Get(m.body, "type") = "demand_surge"}

\* The vehicle may be diverted to the node n.
MayDivert(v, n) ==
  /\ Len(veh[v].manifest) < veh[v].capacity
  /\ n # veh[v].current_location
  /\ \A i \in 1..Len(veh[v].waypoints) : veh[v].waypoints[i] # n
  /\ ~veh[v].is_broken
  /\ ~veh[v].is_refueling

\* C31: a surge notice puts the named station at the front of the waypoint
\* queue exactly when the vehicle has a free seat, is not at that station,
\* has not queued it and is neither broken nor refueling; otherwise the
\* queue stays; in both cases every other field stays and nothing is sent.
C31_SurgeDivertsOnlyWhenFree ==
  \A v \in Vehicles :
    \A msg \in SurgesToTry(v) \cup SurgesAtHand(v) :
      LET r == Dispatch(veh[v], v, msg)
          n == msg.body.station
      IN /\ r.out = <<>>
         /\ \A f \in (DOMAIN veh[v]) \ {"waypoints"} : r.a[f] = veh[v][f]
         /\ MayDivert(v, n)
              => /\ Len(r.a.waypoints) = Len(veh[v].waypoints) + 1
                 /\ r.a.waypoints[1] = n
                 /\ Tail(r.a.waypoints) = veh[v].waypoints
         /\ ~MayDivert(v, n) => r.a.waypoints = veh[v].waypoints

\* The bus, on its way with a stop queued, has taken the surge notice and
\* heads for East first.
C31_Witness ==
  /\ net[<<"st2", "v1">>] = <<>>
  /\ Len(veh["v1"].waypoints) >= 2
  /\ veh["v1"].waypoints[1] = "East"

\* The awards a vehicle may be dealt: for each session id, pending or not,
\* from each station, for each passenger.
AwardsToTry ==
  {Message(st, "accept-proposal", t, [passenger_id |-> p]) :
     st \in Stations, t \in SessionIds, p \in Passengers}

\* The awards at the head of a link to v.
AwardsAtHand(v) ==
  {m \in {Head(net[l]) : l \in {k \in Links : k[2] = v /\ net[k] # <<>>}} :
     m.performative = "accept-proposal"}

\* The queue q with the node n in front.
WithInFront(q, n) == [i \in 1..(Len(q) + 1) |-> IF i = 1 THEN n ELSE q[i - 1]]

\* The queue q with the node n at its end unless q holds n.
WithAtEndOnce(q, n) ==
  IF \E i \in 1..Len(q) : q[i] = n THEN q
  ELSE [i \in 1..(Len(q) + 1) |-> IF i <= Len(q) THEN q[i] ELSE n]

\* The waypoints after the trip from origin to dest is committed.
QueueWithTrip(v, origin, dest) ==
  WithAtEndOnce(
    IF veh[v].current_location = origin
       \/ (veh[v].waypoints # <<>>
           /\ veh[v].waypoints[Len(veh[v].waypoints)] = origin)
    THEN veh[v].waypoints
    ELSE WithInFront(veh[v].waypoints, origin),
    dest)

\* C32: an award for a pending session, taken with a free seat, adds one
\* manifest entry with the awarded passenger and the bid's destination, puts
\* the bid's origin in front of the queue unless the vehicle is there or the
\* queue ends with it, adds the destination at the end unless it is queued,
\* and removes the pending bid; an award for a session that is not pending
\* changes neither manifest nor waypoints.
C32_AwardCommitsTheTrip ==
  \A v \in Vehicles :
    \A msg \in AwardsToTry \cup AwardsAtHand(v) :
      Len(veh[v].manifest) < veh[v].capacity
        => LET r == Dispatch(veh[v], v, msg)
               t == msg.thread
           IN IF t \in DOMAIN veh[v].pending_bids
              THEN LET bid == veh[v].pending_bids[t]
                   IN /\ Len(r.a.manifest) = Len(veh[v].manifest) + 1
                      /\ SubSeq(r.a.manifest, 1, Len(veh[v].manifest))
                           = veh[v].manifest
                      /\ r.a.manifest[Len(r.a.manifest)]
                           = [id |-> msg.body.passenger_id, dest |-> bid.dest]
                      /\ r.a.waypoints = QueueWithTrip(v, bid.origin, bid.dest)
                      /\ DOMAIN r.a.pending_bids
                           = (DOMAIN veh[v].pending_bids) \ {t}
                      /\ \A u \in DOMAIN r.a.pending_bids :
                           r.a.pending_bids[u] = veh[v].pending_bids[u]
                      /\ \A f \in (DOMAIN veh[v])
                                    \ {"manifest", "waypoints", "pending_bids"} :
                           r.a[f] = veh[v][f]
                      /\ r.out = <<>>
              ELSE r.a = veh[v] /\ r.out = <<>>

\* The bus took its award at University with South queued as its next
\* patrol stop: South was not queued again and University joined the end.
C32_Witness ==
  /\ veh["v1"].current_location = "University"
  /\ veh["v1"].waypoints = <<"South", "University">>
  /\ Len(veh["v1"].manifest) = 1
  /\ veh["v1"].pending_bids = <<>>

\* The vehicle is about to hop: it is in service, its head waypoint is
\* elsewhere and the path query finds a way there.
AboutToHop(v) ==
  /\ Operating(veh[v])
  /\ veh[v].waypoints # <<>>
  /\ Head(veh[v].waypoints) # veh[v].current_location
  /\ Len(get_shortest_path(veh[v].weight, veh[v].current_location,
                           Head(veh[v].waypoints), veh[v].vehicle_type)) >= 2

\* The node after the vehicle's place on its path to the head waypoint.
NextNode(v) ==
  get_shortest_path(veh[v].weight, veh[v].current_location,
                    Head(veh[v].waypoints), veh[v].vehicle_type)[2]

\* The distance of the street from the vehicle's place to n, as created.
StreetLength(v, n) == RouteOf(<<veh[v].current_location, n>>)[3]

\* C33: a vehicle that burns fuel and has less than the next hop's distance
\* takes no step: it becomes Broken and sends one breakdown report with
\* issue no_fuel, the rest of it unchanged; otherwise the hop takes it to the
\* next node of its class-filtered shortest path and its fuel falls by that
\* hop's distance, whatever the edge's time cost.
C33_HopOrNoFuel ==
  \A v \in Vehicles, fault \in BOOLEAN :
    AboutToHop(v)
      => LET r == Progress(veh[v], v, fault)
             n == NextNode(v)
         IN IF veh[v].vehicle_type # "tram"
               /\ veh[v].fuel_level < StreetLength(v, n)
            THEN /\ r.a = [veh[v] EXCEPT !.is_broken = TRUE]
                 /\ Len(r.out) = 1
                 /\ r.out[1].to = Mechanic
                 /\ r.out[1].msg.sender = v
                 /\ r.out[1].msg.performative = "request"
                 /\ r.out[1].msg.body.type = "breakdown_alert"
                 /\ r.out[1].msg.body.issue = "no_fuel"
            ELSE /\ r.a.current_location = n
                 /\ <<veh[v].current_location, n>> \in Passable(veh[v].vehicle_type)
                 /\ r.a.fuel_level =
                      IF veh[v].vehicle_type # "tram"
                      THEN veh[v].fuel_level - StreetLength(v, n)
                      ELSE veh[v].fuel_level
                 /\ r.a.waypoints = veh[v].waypoints
                 /\ r.a.is_broken = fault

\* The bus has broken down for want of fuel without leaving the Airport:
\* its tank holds what it held and one report is on its way to the workshop.
C33_Witness ==
  /\ veh["v1"].is_broken
  /\ veh["v1"].current_location = "Airport"
  /\ veh["v1"].fuel_level = 4 * FuelScale
  /\ veh["v1"].waypoints = <<"GasStation">>
  /\ Len(net[<<"v1", Mechanic>>]) = 1
  /\ net[<<"v1", Mechanic>>][1].body.issue = "no_fuel"

\* C34: the fuel of a vehicle that burns fuel is between 0 and 100 in every
\* reachable state, whatever hops, breakdowns, repairs and refuels came
\* before.
C34_FuelWithinTank ==
  \A v \in Vehicles :
    veh[v].vehicle_type # "tram"
      => veh[v].fuel_level >= 0 /\ veh[v].fuel_level <= 100 * FuelScale

\* The bus ran dry at the Airport, was repaired with a full tank, drove to
\* the depot and was refuelled there.
C34_Witness ==
  /\ \E j \in 1..Len(jobs) : jobs[j].pc = "done"
  /\ \E i \in 1..Len(pump.log) :
       pump.log[i].ev = "reply" /\ pump.log[i].msg.sender = "v1"
  /\ veh["v1"].current_location = "GasStation"
  /\ ~veh["v1"].is_refueling
  /\ veh["v1"].fuel_level = 100 * FuelScale

\* The repair completions a vehicle may be dealt: with and without fuel.
RepairsToTry ==
  {Message(Mechanic, "inform", NoThread,
           [status |-> "repaired", refueled |-> b]) : b \in BOOLEAN}

\* The repair completions at the head of the workshop's link to v.
RepairsAtHand(v) ==
  {m \in {Head(net[l]) : l \in {k \in Links : k[2] = v /\ net[k] # <<>>}} :
     m.performative = "inform" /\ Get(m.body, "status") = "repaired"}

\* The last breakdown report of v the workshop has taken up.
LastJobOf(v) ==
  jobs[CHOOSE j \in 1..Len(jobs) :
         /\ jobs[j].request_msg.sender = v
         /\ \A k \in (j + 1)..Len(jobs) : jobs[k].request_msg.sender # v]

\* C35: a repair completion on its way to a vehicle says refueled exactly
\* when the report it answers named no_fuel; the vehicle that processes a
\* completion is no longer broken, has a full tank if the completion says
\* refueled and the fuel it had otherwise, and keeps every other field.
C35_RepairRefuelsOnlyTheDry ==
  \A v \in Vehicles :
    /\ \A i \in 1..Len(net[<<Mechanic, v>>]) :
         LET m == net[<<Mechanic, v>>][i]
         IN /\ \E j \in 1..Len(jobs) : jobs[j].request_msg.sender = v
            /\ LastJobOf(v).pc = "done"
            /\ m.body.status = "repaired"
            /\ m.body.refueled = (LastJobOf(v).request_msg.body.issue = "no_fuel")
    /\ \A msg \in RepairsToTry \cup RepairsAtHand(v) :
         LET r == Dispatch(veh[v], v, msg)
         IN /\ ~r.a.is_broken
            /\ r.a.fuel_level = IF msg.body.refueled THEN 100 * FuelScale
                                 ELSE veh[v].fuel_level
            /\ \A f \in (DOMAIN veh[v]) \ {"is_broken", "fuel_level"} :
                 r.a[f] = veh[v][f]

\* The bus ran dry and was repaired with a full tank, then broke down by a
\* fault after a hop; the second completion, which says not refueled, is on
\* its way while the tank holds less than 100.
C35_Witness ==
  /\ Len(jobs) = 2
  /\ jobs[1].request_msg.body.issue = "no_fuel"
  /\ jobs[2].request_msg.body.issue = "engine_fail"
  /\ Len(net[<<Mechanic, "v1">>]) = 1
  /\ ~net[<<Mechanic, "v1">>][1].body.refueled
  /\ veh["v1"].is_broken
  /\ veh["v1"].fuel_level < 100 * FuelScale

\* The refuel completion at the head of the pump's link to v.
CompletionAtHand(v) ==
  /\ net[<<Pump, v>>] # <<>>
  /\ Get(Head(net[<<Pump, v>>]).body, "status") = "refueled"

\* The pump has nothing left to do and no vehicle waits for it.
PumpDrained ==
  /\ ~pump.busy
  /\ pump.queue = <<>>
  /\ \A v \in Vehicles : net[<<v, Pump>>] = <<>> /\ net[<<Pump, v>>] = <<>>
  /\ \A v \in Vehicles : ~veh[v].is_refueling

\* The completion at hand leaves the vehicle idle, full and at the depot.
C36_CompletionFills ==
  \A v \in Vehicles :
    CompletionAtHand(v)
      => LET a == process_service_message(veh[v], Head(net[<<Pump, v>>])).a
         IN /\ ~a.is_refueling /\ ~a.is_broken
            /\ a.fuel_level = 100 * FuelScale
            /\ a.current_location = "GasStation"

\* C36: under fair scheduling every vehicle that is Refueling gets the
\* pump's completion to its link and then leaves Refueling, idle with fuel
\* 100 at the depot, also when another vehicle's request is queued before
\* its own; in the end the pump has answered every request.
C36_EveryRefuelAnswered ==
  /\ \A v \in Vehicles : veh[v].is_refueling ~> CompletionAtHand(v)
  /\ \A v \in Vehicles : veh[v].is_refueling ~> ~veh[v].is_refueling
  /\ []C36_CompletionFills
  /\ <>[]PumpDrained

\* Both low buses asked the pump before it had answered either; both have
\* been answered and have left Refueling.
C36_Witness ==
  /\ Len(pump.log) = 6
  /\ pump.log[1].ev = "arrive" /\ pump.log[2].ev = "arrive"
  /\ pump.log[1].msg.sender # pump.log[2].msg.sender
  /\ pump.log[6].ev = "reply"
  /\ PumpDrained

\* The nodes and destinations the drop-off is tried with.
StopsToTry == {"West", "Airport", "GasStation"}

\* The manifests the drop-off is tried with: up to two passengers bound for
\* those nodes.
ManifestsToTry ==
  LET entries == {[id |-> passenger_pool[1], dest |-> d] : d \in StopsToTry}
  IN {<<>>} \cup {<<e>> : e \in entries}
       \cup {<<e, f>> : e \in entries, f \in entries}

\* The vehicle as it is, or standing on a node with that node as its head
\* waypoint and one of the manifests aboard.
StoppingAs(v) ==
  (IF veh[v].waypoints # <<>> /\ Head(veh[v].waypoints) = veh[v].current_location
   THEN {veh[v]} ELSE {})
  \cup {[veh[v] EXCEPT !.current_location = n,
                        !.waypoints = <<n>> \o veh[v].waypoints,
                        !.manifest = m] :
          n \in StopsToTry, m \in ManifestsToTry}

\* C37: a movement step of a vehicle that stands on its head waypoint pops
\* the waypoint; at a node other than the depot the manifest loses exactly
\* the entries bound for the node and keeps the others in their order; at
\* the depot the manifest stays as it is.
C37_DropOffByDestination ==
  \A v \in Vehicles :
    \A a \in StoppingAs(v) :
      LET r == move_to_next_node(a, v, FALSE)
          loc == a.current_location
          StaysAboard(p) == p.dest # loc
      IN /\ r.a.current_location = loc
         /\ loc # "GasStation"
              => r.a.manifest = SelectSeq(a.manifest, StaysAboard)
         /\ loc = "GasStation"
              => r.a.manifest = a.manifest /\ r.a.waypoints = Tail(a.waypoints)

\* The bus with two seats has set down one of its two passengers and is
\* about to stop where the other one is bound for.
C37_Witness ==
  /\ \E i \in 1..Len(vlog["v1"]) : vlog["v1"][i].ev = "dropoff"
  /\ Len(veh["v1"].manifest) = 1
  /\ veh["v1"].waypoints # <<>>
  /\ Head(veh["v1"].waypoints) = veh["v1"].current_location
  /\ veh["v1"].manifest[1].dest = veh["v1"].current_location

\* C38: no committed trip's manifest entry is removed by a stop before the
\* vehicle has stood on the trip's origin after the award.
C38_OriginBeforeDropOff ==
  \A v \in Vehicles : trips[v].stranded = {}

\* No vehicle holds a pending bid for a session that has ended.
NoStaleBid ==
  \A v \in Vehicles :
    \A t \in DOMAIN veh[v].pending_bids : ~Terminal(t)

\* C39: under fair scheduling the pending-bid tables come to hold entries
\* only for sessions that are still running, and stay so: the entry of a
\* bid that lost, came late or whose award was refused is removed in the
\* end, and a table never keeps more entries than there are live sessions.
C39_StaleBidsRemoved == <>[]NoStaleBid

\* No vehicle has a passenger in its manifest.
AllSetDown == \A v \in Vehicles : veh[v].manifest = <<>>

====
